---------------------------- MODULE Spec2Model ----------------------------
(***************************************************************************)
(* Secchiware C2 control-plane service.                                    *)
(*                                                                         *)
(* The HTTP service of src/c2/c2.py (environment registry, session table,  *)
(* request gates, proxying to Nodes, local test-set catalogue) and the     *)
(* package archiving of src/common/test_utils.py, as a state machine: one  *)
(* action per route handler, each handling one whole request.              *)
(***************************************************************************)
EXTENDS Integers, Sequences, FiniteSets, TLC

VARIABLES
    environments,   \* c2.py `environments`: ip -> (port key -> session info)
    sessions,       \* the rows of the `session` table, in insertion order
    fs,             \* the entries under TESTS_PATH: path -> "dir" | "file"
    available,      \* c2.py `available.content`: the local catalogue
    last,           \* the request handled last, its response, the call sent
    call            \* a call of a test_utils function, and what it returned

vars == <<environments, sessions, fs, available, last, call>>

----------------------------------------------------------------------------
(* Bounds of the model *)

MaxSessions == 3        \* rows the session table may hold
TickSeconds == 40271    \* seconds between two registrations
StartEpoch == 951782390 \* the epoch of the first tick (2000-02-28T23:59:50Z)
MaxMembers == 3         \* members of an uploaded archive
MaxBatch == 2           \* descriptors of one batch_insert
MaxNames == 2           \* names handed to compress_test_packages
MaxTests == 3           \* members of a test set instance
MaxTargets == 2         \* names of a test_sets selection

----------------------------------------------------------------------------
(* Values *)

Absent == [absent |-> TRUE]     \* a header that is not there; Python's None
NoKey == "None"                 \* a key recoverer's None

IPs == {"10.0.0.1", "10.0.0.2"}
PortTexts == {"5000", "ssh"}    \* port texts a URL or a JSON string may hold
PortNumbers == {5000}           \* ports a JSON number may hold

\* A JSON scalar sent as `port`: a string or a number.
JStr(s) == [t |-> "str", s |-> s, n |-> 0]
JNum(n) == [t |-> "num", s |-> "", n |-> n]

\* Python's int(): a JSON number is itself, a string of digits is parsed,
\* any other string raises ValueError.
IntParses(p) == p.t = "num" \/ p.s \in {"5000", "5001"}
IntOf(p) ==
    IF p.t = "num" THEN p.n
    ELSE IF p.s = "5000" THEN 5000
    ELSE IF p.s = "5001" THEN 5001
    ELSE -1

\* The text json.dumps writes for a dict key: a str key as it is, an int key
\* in decimal.
KeyText(p) ==
    IF p.t = "str" THEN p.s
    ELSE IF p.n = 5000 THEN "5000"
    ELSE IF p.n = 5001 THEN "5001"
    ELSE "?"

Put(f, k, v) == [x \in DOMAIN f \cup {k} |-> IF x = k THEN v ELSE f[x]]
Drop(f, k) == [x \in DOMAIN f \ {k} |-> f[x]]

----------------------------------------------------------------------------
(* hashlib.sha256, base64.b64encode, the Digest header *)

\* Collision-free idealisation: equal digests exactly for equal data.
sha256(data) == [sha256 |-> data]
b64encode(x) == [b64 |-> x]

\* The header "sha-256=<base64 of the SHA-256 of body>".
DigestHeader(body) == [alg |-> "sha-256", value |-> b64encode(sha256(body))]

----------------------------------------------------------------------------
(* The signatures module (request signing and verification) *)

CLIENT_SECRET == "client-secret"
NODE_SECRET == "node-secret"
KeyIds == {"Client", "Node", "C2"}
SCHEME == "SECCHIWARE-HMAC-256"

HeaderGet(headers, h) == IF h \in DOMAIN headers THEN headers[h] ELSE Absent

\* HMAC-SHA-256 of the canonical string built from method, path, query
\* string and the value of every signed header, keyed by `secret`.
new_signature(secret, method, path, query_string, signature_headers, headers) ==
    [hmac |-> secret,
     msg |-> <<method, path, query_string,
               [i \in 1..Len(signature_headers) |->
                    HeaderGet(headers, signature_headers[i])]>>]

new_authorization_header(key_id, signature, signature_headers) ==
    [scheme |-> SCHEME, keyId |-> key_id,
     headers |-> signature_headers, signature |-> signature]

\* "ValueError" for a malformed header or an unknown key id, else whether
\* every mandatory header is signed and the signature is the expected one.
verify_authorization_header(header_value, key_recoverer, headers, method, path, query_string, mandatory_headers) ==
    IF header_value.scheme # SCHEME THEN "ValueError"
    ELSE IF key_recoverer[header_value.keyId] = NoKey THEN "ValueError"
    ELSE IF /\ \A i \in 1..Len(mandatory_headers) :
                  \E j \in 1..Len(header_value.headers) :
                      header_value.headers[j] = mandatory_headers[i]
            /\ header_value.signature =
                   new_signature(key_recoverer[header_value.keyId], method, path,
                                 query_string, header_value.headers, headers)
         THEN "valid"
         ELSE "invalid"

----------------------------------------------------------------------------
(* Requests *)

JSON_MIME == "application/json"
MULTIPART_MIME == "multipart/form-data"

NoRequest ==
    [method |-> "NONE", path |-> <<>>, query |-> "", mimetype |-> "",
     body |-> [k |-> "empty"],
     headers |-> [Digest |-> Absent, Authorization |-> Absent]]

\* JSON documents a body may hold.
JObject(keys, ip, port, pinfo) ==
    [t |-> "object", keys |-> keys, ip |-> ip, port |-> port,
     platform_info |-> pinfo, items |-> <<>>]
JArray(items) ==
    [t |-> "array", keys |-> {}, ip |-> "", port |-> JStr(""),
     platform_info |-> "", items |-> items]
JNull ==
    [t |-> "null", keys |-> {}, ip |-> "", port |-> JStr(""),
     platform_info |-> "", items |-> <<>>]

JsonBody(doc) == [k |-> "json", json |-> doc]
RawBody == [k |-> "raw"]
EmptyBody == [k |-> "empty"]
MultipartBody(part, archive) ==
    [k |-> "multipart", part |-> part, archive |-> archive]

----------------------------------------------------------------------------
(* c2.py: key recoverers and request gates.  A gate yields the status it    *)
(* aborts the request with, or 0 when the request passes.                  *)

\* A recoverer that answers with the secret of whichever role is named.
EitherRoleKeyRecoverer ==
    [key_id \in KeyIds |->
        IF key_id = "Client" THEN CLIENT_SECRET
        ELSE IF key_id = "Node" THEN NODE_SECRET ELSE NoKey]

client_key_recoverer ==
    [key_id \in KeyIds |-> IF key_id = "Client" THEN CLIENT_SECRET ELSE NoKey]

\* A recoverer that also knows the key id the service signs with.
NodeOrC2KeyRecoverer ==
    [key_id \in KeyIds |->
        IF key_id \in {"Node", "C2"} THEN NODE_SECRET ELSE NoKey]

node_key_recoverer ==
    [key_id \in KeyIds |-> IF key_id = "Node" THEN NODE_SECRET ELSE NoKey]

\* A lookup that is content with the ip alone.
CheckRegisteredIpOnly(env, ip, port) ==
    IF ip \notin DOMAIN env THEN 404 ELSE 0

check_registered(env, ip, port) ==
    IF ~(ip \in DOMAIN env /\ port \in DOMAIN env[ip]) THEN 404 ELSE 0

CheckIsJsonSkipped(req) == 0

check_is_json(req) ==
    IF req.mimetype # JSON_MIME THEN 415 ELSE 0

\* A Digest gate that asks for the header and does not hash the body.
CheckDigestPresent(req) ==
    IF req.headers.Digest = Absent THEN 400
    ELSE IF req.headers.Digest.alg # "sha-256" THEN 400
    ELSE 0

check_digest_header(req) ==
    IF req.headers.Digest = Absent THEN 400
    ELSE IF req.headers.Digest.alg # "sha-256" THEN 400
    ELSE IF b64encode(sha256(req.body)) # req.headers.Digest.value THEN 400
    ELSE 0

\* An authorization gate that names no mandatory header.
CheckAuthorizationAnyHeaders(req, key_recoverer, mandatory_headers) ==
    IF req.headers.Authorization = Absent THEN 401
    ELSE IF verify_authorization_header(
                req.headers.Authorization, key_recoverer, req.headers,
                req.method, req.path, req.query, <<>>) # "valid"
         THEN 401
         ELSE 0

check_authorization_header(req, key_recoverer, mandatory_headers) ==
    IF req.headers.Authorization = Absent THEN 401
    ELSE IF verify_authorization_header(
                req.headers.Authorization, key_recoverer, req.headers,
                req.method, req.path, req.query, mandatory_headers) # "valid"
         THEN 401
         ELSE 0

\* The gates run in sequence; the first that aborts ends the request.
RECURSIVE FirstAbort(_)
FirstAbort(gates) ==
    IF gates = <<>> THEN 0
    ELSE IF Head(gates) # 0 THEN Head(gates)
    ELSE FirstAbort(Tail(gates))

----------------------------------------------------------------------------
(* The session table (init_database) and SQLite's strftime *)

\* id_session INTEGER PRIMARY KEY: one more than the largest id in the table.
RECURSIVE MaxId(_)
MaxId(rows) ==
    IF rows = <<>> THEN 0
    ELSE LET m == MaxId(Tail(rows))
         IN IF Head(rows).id_session > m THEN Head(rows).id_session ELSE m

\* An id taken again: that of the newest row.
ReusedRowId(rows) == IF rows = <<>> THEN 1 ELSE MaxId(rows)

NextRowId(rows) == MaxId(rows) + 1

\* The columns the registry reads or that identify the environment; the
\* platform columns are copied from the body and read by nothing.
SessionRow(id, now, ip, port) ==
    [id_session |-> id, session_start |-> now, env_ip |-> ip,
     env_port |-> IntOf(port)]

\* session_start DEFAULT (CAST(strftime('%s', 'now') AS INTEGER)): the time
\* of the insert, one tick after the newest row's.
Now(rows) ==
    IF rows = <<>> THEN StartEpoch
    ELSE rows[Len(rows)].session_start + TickSeconds

\* strftime('%Y-%m-%dT%H:%M:%SZ', epoch, 'unixepoch'): the civil date and the
\* time of day of an epoch, each field printed with its fixed width.
Strftime(epoch) ==
    LET days == epoch \div 86400
        secs == epoch % 86400
        z    == days + 719468
        era  == z \div 146097
        doe  == z - era * 146097
        yoe  == (doe - doe \div 1460 + doe \div 36524 - doe \div 146096) \div 365
        doy  == doe - (365 * yoe + yoe \div 4 - yoe \div 100)
        mp   == (5 * doy + 2) \div 153
        d    == doy - (153 * mp + 2) \div 5 + 1
        m    == IF mp < 10 THEN mp + 3 ELSE mp - 9
        y    == yoe + era * 400 + (IF m <= 2 THEN 1 ELSE 0)
    IN [year |-> y, month |-> m, day |-> d,
        hour |-> secs \div 3600, minute |-> (secs % 3600) \div 60,
        second |-> secs % 60, zone |-> "Z"]

RowById(rows, id) == CHOOSE i \in 1..Len(rows) : rows[i].id_session = id

----------------------------------------------------------------------------
(* The in-memory registry *)

\* environments[ip][port] = {...}, creating the ip's map when it is new.
RegistryAdd(env, ip, port, info) ==
    IF ip \in DOMAIN env
    THEN [env EXCEPT ![ip] = Put(@, port, info)]
    ELSE Put(env, ip, Put(<<>>, port, info))

RegistryRemoveNoPrune(env, ip, port) == [env EXCEPT ![ip] = Drop(@, port)]

\* del environments[ip][port]; the ip goes with its last port.
RegistryRemove(env, ip, port) ==
    LET ports == Drop(env[ip], port)
    IN IF DOMAIN ports = {} THEN Drop(env, ip) ELSE [env EXCEPT ![ip] = ports]

\* jsonify(environments): every dict key becomes its text.  Flask sorts the
\* keys of each object, which fails (TypeError, 500) for a dict that holds
\* str and int keys together.
Sortable(env) ==
    \A ip \in DOMAIN env : \A p, q \in DOMAIN env[ip] : p.t = q.t

Entries(env) == UNION {{<<ip, p>> : p \in DOMAIN env[ip]} : ip \in DOMAIN env}

Listing(env) ==
    {[ip |-> e[1], port |-> KeyText(e[2]),
      session_id |-> env[e[1]][e[2]].session_id,
      session_start |-> env[e[1]][e[2]].session_start] : e \in Entries(env)}

----------------------------------------------------------------------------
(* Route handlers: the environment registry *)

Reply(req, status, listing, sent) ==
    /\ last' = [req |-> req, status |-> status, listing |-> listing, sent |-> sent]
    /\ UNCHANGED call

\* 'ip' in request.json and 'port' in request.json and 'platform_info' in
\* request.json: key membership for an object, item membership for an array.
HasKeys(doc) ==
    IF doc.t = "object" THEN {"ip", "port", "platform_info"} \subseteq doc.keys
    ELSE \A key \in {"ip", "port", "platform_info"} :
             \E i \in 1..Len(doc.items) : doc.items[i] = key

\* What add_environment answers before it touches the store: a gate's abort,
\* 400 for a body that is no JSON or lacks a key, 500 for an exception
\* (a null body, an array indexed by 'ip', a port int() refuses, a
\* platform_info that lacks a field), or 0 when it goes on to register.
AddEnvironmentRefusal(req) ==
    LET abort == FirstAbort(<<check_digest_header(req),
                              check_authorization_header(
                                  req, node_key_recoverer, <<"Digest">>),
                              check_is_json(req)>>)
    IN IF abort # 0 THEN abort
       ELSE IF req.body.k # "json" THEN 400
       ELSE IF req.body.json.t = "null" THEN 500
       ELSE IF ~HasKeys(req.body.json) THEN 400
       ELSE IF req.body.json.t # "object" THEN 500
       ELSE IF ~IntParses(req.body.json.port) THEN 500
       ELSE IF req.body.json.platform_info # "full" THEN 500
       ELSE 0

\* POST /environments
add_environment(req) ==
    /\ req.method = "POST" /\ req.path = <<"environments">>
    /\ IF AddEnvironmentRefusal(req) # 0
       THEN /\ Reply(req, AddEnvironmentRefusal(req), {}, Absent)
            /\ UNCHANGED <<environments, sessions, fs, available>>
       ELSE /\ Len(sessions) < MaxSessions
            /\ LET ip  == req.body.json.ip
                   port == req.body.json.port
                   row == SessionRow(NextRowId(sessions), Now(sessions), ip, port)
                   rows == Append(sessions, row)
                   lastrowid == row.id_session
               IN /\ sessions' = rows
                  /\ environments' = RegistryAdd(environments, ip, port,
                         [session_id |-> lastrowid,
                          session_start |-> Strftime(
                              rows[RowById(rows, lastrowid)].session_start)])
            /\ Reply(req, 204, {}, Absent)
            /\ UNCHANGED <<fs, available>>

\* The port of a URL is the text of its path segment.
UrlPort(req) == JStr(req.path[3])

\* DELETE /environments/<ip>/<port>
remove_environment(req) ==
    /\ req.method = "DELETE" /\ Len(req.path) = 3 /\ req.path[1] = "environments"
    /\ LET ip == req.path[2]
           port == UrlPort(req)
           abort == FirstAbort(<<check_authorization_header(
                                     req, node_key_recoverer, <<>>),
                                 check_registered(environments, ip, port)>>)
       IN IF abort # 0
          THEN /\ Reply(req, abort, {}, Absent)
               /\ UNCHANGED <<environments, sessions, fs, available>>
          ELSE /\ environments' = RegistryRemove(environments, ip, port)
               /\ Reply(req, 204, {}, Absent)
               /\ UNCHANGED <<sessions, fs, available>>

\* GET /environments
list_environments(req) ==
    /\ req.method = "GET" /\ req.path = <<"environments">>
    /\ IF Sortable(environments)
       THEN Reply(req, 200, Listing(environments), Absent)
       ELSE Reply(req, 500, {}, Absent)
    /\ UNCHANGED <<environments, sessions, fs, available>>

----------------------------------------------------------------------------
(* The test-set root directory and tar archives (test_utils.py) *)

TopSeq == <<"pa", "pb">>            \* top-level names, as sorted() orders them
TopNames == {TopSeq[i] : i \in 1..Len(TopSeq)}
INIT_PY == "__init__.py"
PYCACHE == "__pycache__"
InnerSeq == <<INIT_PY, PYCACHE, "mod.py">>  \* names inside a package, sorted
InnerNames == {InnerSeq[i] : i \in 1..Len(InnerSeq)}
InnerType(x) == IF x = PYCACHE THEN "dir" ELSE "file"

isdir(tree, path) == path \in DOMAIN tree /\ tree[path] = "dir"

\* An archive is the sequence of its members, each a path and a type.
Member(name, type) == [name |-> name, type |-> type]

\* tar.getmember(member.name + "/__init__.py") finds a member.
member_is_package(tar, member) ==
    \E i \in 1..Len(tar) : tar[i].name = Append(member.name, INIT_PY)

\* The loop over the members: the names of the top-level members found, and
\* whether one of them is no package (ValueError).
RECURSIVE ScanMembers(_, _, _)
ScanMembers(tar, i, new_packages) ==
    IF i > Len(tar) THEN [raised |-> FALSE, new_packages |-> new_packages]
    ELSE IF Len(tar[i].name) = 1
         THEN IF ~(tar[i].type = "dir" /\ member_is_package(tar, tar[i]))
              THEN [raised |-> TRUE, new_packages |-> new_packages]
              ELSE ScanMembers(tar, i + 1, Append(new_packages, tar[i].name[1]))
         ELSE ScanMembers(tar, i + 1, new_packages)

\* TarFile.extract of one member: the directories above it are made when
\* missing, then the member itself is written.
ExtractMember(tree, member) ==
    LET n == Len(member.name)
        above == {SubSeq(member.name, 1, j) : j \in 1..(n - 1)}
    IN [path \in DOMAIN tree \cup above \cup {member.name} |->
           IF path = member.name THEN member.type
           ELSE IF path \in DOMAIN tree THEN tree[path]
           ELSE "dir"]

\* tar.extractall(tests_root): every member, in archive order.
RECURSIVE extractall(_, _)
extractall(tar, tree) ==
    IF tar = <<>> THEN tree
    ELSE extractall(Tail(tar), ExtractMember(tree, Head(tar)))

\* A decompression that writes the members out before it looks at them.
ExtractThenScan(tar, tree) ==
    LET scan == ScanMembers(tar, 1, <<>>)
    IN [raised |-> scan.raised,
        new_packages |-> IF scan.raised THEN <<>> ELSE scan.new_packages,
        tree |-> extractall(tar, tree)]

\* uncompress_test_packages(file_object, tests_root): the scan of all the
\* members, then the extraction.
uncompress_test_packages(tar, tree) ==
    LET scan == ScanMembers(tar, 1, <<>>)
    IN IF scan.raised
       THEN [raised |-> TRUE, new_packages |-> <<>>, tree |-> tree]
       ELSE [raised |-> FALSE, new_packages |-> scan.new_packages,
             tree |-> extractall(tar, tree)]

\* tar.add(tp_path, tp, filter=filter_pycache): the directory, then what it
\* holds in sorted order, without the __pycache__ directories.
RECURSIVE AddChildren(_, _, _)
AddChildren(tree, tp, i) ==
    IF i > Len(InnerSeq) THEN <<>>
    ELSE (IF <<tp, InnerSeq[i]>> \in DOMAIN tree /\ InnerSeq[i] # PYCACHE
          THEN <<Member(<<tp, InnerSeq[i]>>, tree[<<tp, InnerSeq[i]>>])>>
          ELSE <<>>) \o AddChildren(tree, tp, i + 1)

\* len(tp.split(".")) > 1
Dotted(tp) == tp \in {"pa.sub"}

\* compress_test_packages(file_object, test_packages, tests_root)
RECURSIVE compress_test_packages(_, _)
compress_test_packages(test_packages, tree) ==
    IF test_packages = <<>> THEN <<>>
    ELSE LET tp == Head(test_packages)
         IN (IF ~Dotted(tp) /\ isdir(tree, <<tp>>)
             THEN <<Member(<<tp>>, "dir")>> \o AddChildren(tree, tp, 1)
             ELSE <<>>) \o compress_test_packages(Tail(test_packages), tree)

\* shutil.rmtree(package_path)
rmtree(tree, package) ==
    [path \in {q \in DOMAIN tree : q[1] # package} |-> tree[path]]

----------------------------------------------------------------------------
(* The local catalogue *)

\* pkgutil.iter_modules reports a directory as a package when it holds an
\* __init__ file.
IsPackage(tree, name) == isdir(tree, <<name>>) /\ <<name, INIT_PY>> \in DOMAIN tree

\* get_installed_package(package_name): the descriptor of what is on disk
\* (the importable modules of the package; __init__ is not one of them).
get_installed_package(tree, name) ==
    [name |-> name, subpackages |-> <<>>,
     modules |-> {x \in InnerNames :
                     /\ <<name, x>> \in DOMAIN tree
                     /\ InnerType(x) = "file" /\ x # INIT_PY}]

\* get_installed_test_sets(root_package): the packages under the root, in
\* the sorted order iter_modules yields them.
RECURSIVE ScanRoot(_, _)
ScanRoot(tree, i) ==
    IF i > Len(TopSeq) THEN <<>>
    ELSE (IF IsPackage(tree, TopSeq[i])
          THEN <<get_installed_package(tree, TopSeq[i])>>
          ELSE <<>>) \o ScanRoot(tree, i + 1)

get_installed_test_sets(tree) == ScanRoot(tree, 1)

\* OrderedListOfDict('name', str): records with pairwise distinct names.
HasKey(content, key) == \E i \in 1..Len(content) : content[i].name = key

\* An insert that never looks for the key.
AppendAlways(content, record) == Append(content, record)

Upsert(content, record) ==
    IF HasKey(content, record.name)
    THEN [i \in 1..Len(content) |->
             IF content[i].name = record.name THEN record ELSE content[i]]
    ELSE Append(content, record)

RECURSIVE batch_insert(_, _)
batch_insert(content, records) ==
    IF records = <<>> THEN content
    ELSE batch_insert(Upsert(content, Head(records)), Tail(records))

RECURSIVE delete(_, _)
delete(content, key) ==
    IF content = <<>> THEN <<>>
    ELSE IF Head(content).name = key THEN delete(Tail(content), key)
    ELSE <<Head(content)>> \o delete(Tail(content), key)

Names(content) == {content[i].name : i \in 1..Len(content)}

----------------------------------------------------------------------------
(* Route handlers: the local test sets *)

\* request.files and 'packages' in request.files
HasPackagesPart(req) == req.body.k = "multipart" /\ req.body.part = "packages"

\* The checks of an upload in the order Digest, authentication, part, type.
UploadRefusalDigestFirst(req) ==
    IF check_digest_header(req) # 0 THEN check_digest_header(req)
    ELSE IF check_authorization_header(req, client_key_recoverer, <<"Digest">>) # 0
    THEN 401
    ELSE IF ~HasPackagesPart(req) THEN 400
    ELSE IF req.mimetype # MULTIPART_MIME THEN 415
    ELSE 0

\* The checks of upload_test_sets before it opens the archive.
UploadRefusal(req) ==
    IF req.mimetype # MULTIPART_MIME THEN 415
    ELSE IF check_digest_header(req) # 0 THEN check_digest_header(req)
    ELSE IF ~HasPackagesPart(req) THEN 400
    ELSE check_authorization_header(req, client_key_recoverer, <<"Digest">>)

\* The loop over new_packages: clean_package drops the cached modules of an
\* older version, so the descriptor is the one of the files now on disk.
NewInfo(tree, new_packages) ==
    [i \in 1..Len(new_packages) |-> get_installed_package(tree, new_packages[i])]

\* PATCH /test_sets
upload_test_sets(req) ==
    /\ req.method = "PATCH" /\ req.path = <<"test_sets">>
    /\ IF UploadRefusal(req) # 0
       THEN /\ Reply(req, UploadRefusal(req), {}, Absent)
            /\ UNCHANGED <<environments, sessions, fs, available>>
       ELSE LET done == uncompress_test_packages(req.body.archive, fs)
            IN IF done.raised
               THEN /\ Reply(req, 400, {}, Absent)
                    /\ UNCHANGED <<environments, sessions, fs, available>>
               ELSE /\ fs' = done.tree
                    /\ available' = batch_insert(
                           available, NewInfo(done.tree, done.new_packages))
                    /\ Reply(req, 204, {}, Absent)
                    /\ UNCHANGED <<environments, sessions>>

\* DELETE /test_sets/<package>
delete_package(req) ==
    /\ req.method = "DELETE" /\ Len(req.path) = 2 /\ req.path[1] = "test_sets"
    /\ LET package == req.path[2]
       IN IF check_authorization_header(req, client_key_recoverer, <<>>) # 0
          THEN /\ Reply(req, 401, {}, Absent)
               /\ UNCHANGED <<environments, sessions, fs, available>>
          ELSE IF ~isdir(fs, <<package>>)
          THEN /\ Reply(req, 404, {}, Absent)
               /\ UNCHANGED <<environments, sessions, fs, available>>
          ELSE /\ fs' = rmtree(fs, package)
               /\ available' = delete(available, package)
               /\ Reply(req, 204, {}, Absent)
               /\ UNCHANGED <<environments, sessions>>

\* GET /test_sets
list_available_test_sets(req) ==
    /\ req.method = "GET" /\ req.path = <<"test_sets">>
    /\ Reply(req, 200, {available[i] : i \in 1..Len(available)}, Absent)
    /\ UNCHANGED <<environments, sessions, fs, available>>

----------------------------------------------------------------------------
(* Route handlers: the signed proxies to a Node *)

\* What the Node does with a call: it cannot be reached, or it answers.
NodeOutcomes == {0, 204, 400, 401, 404, 415, 500}

\* An upload handed on under the Client's key, its Digest not signed.
UploadSignedAsClient(ip, port, archive) ==
    LET body == MultipartBody("packages", archive)
        headers == [Digest |-> DigestHeader(body), Authorization |-> Absent]
        signature == new_signature(CLIENT_SECRET, "PATCH", <<"test_sets">>, "",
                                   <<>>, headers)
    IN [host |-> <<ip, port>>, method |-> "PATCH", path |-> <<"test_sets">>,
        body |-> body,
        headers |-> [headers EXCEPT !.Authorization =
                        new_authorization_header("Client", signature, <<>>)]]

\* The PATCH /test_sets the service prepares for the Node at ip:port: the
\* archive as the multipart part 'packages', the Digest of the prepared body,
\* and an Authorization of key id "C2" signed with the Node secret over it.
PreparedUpload(ip, port, archive) ==
    LET body == MultipartBody("packages", archive)
        headers == [Digest |-> DigestHeader(body), Authorization |-> Absent]
        signature == new_signature(NODE_SECRET, "PATCH", <<"test_sets">>, "",
                                   <<"Digest">>, headers)
    IN [host |-> <<ip, port>>, method |-> "PATCH", path |-> <<"test_sets">>,
        body |-> body,
        headers |-> [headers EXCEPT !.Authorization =
                        new_authorization_header("C2", signature, <<"Digest">>)]]

\* The DELETE /test_sets/<package> the service sends to the Node.
PreparedDelete(ip, port, package) ==
    [host |-> <<ip, port>>, method |-> "DELETE",
     path |-> <<"test_sets", package>>, body |-> EmptyBody,
     headers |-> [Digest |-> Absent,
                  Authorization |-> new_authorization_header("C2",
                      new_signature(NODE_SECRET, "DELETE",
                                    <<"test_sets", package>>, "", <<>>,
                                    [Digest |-> Absent, Authorization |-> Absent]),
                      <<>>)]]

\* A proxy that hands the Node's status through.
StatusHandedThrough(outcome) == IF outcome = 0 THEN 504 ELSE outcome

\* install_packages: the answer for the Node's outcome.
InstallStatus(outcome) ==
    IF outcome = 0 THEN 504
    ELSE IF outcome = 204 THEN 204
    ELSE IF outcome \in {400, 401, 415} THEN 500
    ELSE 502

\* delete_installed_package: the answer for the Node's outcome.
UninstallStatus(outcome) ==
    IF outcome = 0 THEN 504
    ELSE IF outcome = 204 THEN 204
    ELSE IF outcome \in {401, 404} THEN 404
    ELSE 502

\* What install_packages answers before it packs anything: a gate's abort,
\* 400 for a body that is no JSON, 500 for a body that cannot be iterated
\* as a list of names.
InstallRefusal(req, env) ==
    LET abort == FirstAbort(<<check_digest_header(req),
                              check_authorization_header(
                                  req, client_key_recoverer, <<"Digest">>),
                              check_registered(env, req.path[2], UrlPort(req)),
                              check_is_json(req)>>)
    IN IF abort # 0 THEN abort
       ELSE IF req.body.k # "json" THEN 400
       ELSE IF req.body.json.t # "array" THEN 500
       ELSE 0

\* PATCH /environments/<ip>/<port>/installed
install_packages(req) ==
    /\ req.method = "PATCH" /\ Len(req.path) = 4
    /\ req.path[1] = "environments" /\ req.path[4] = "installed"
    /\ UNCHANGED <<environments, sessions, fs, available>>
    /\ IF InstallRefusal(req, environments) # 0
       THEN Reply(req, InstallRefusal(req, environments), {}, Absent)
       ELSE \E outcome \in NodeOutcomes :
                Reply(req, InstallStatus(outcome), {},
                      [call |-> PreparedUpload(req.path[2], req.path[3],
                           compress_test_packages(req.body.json.items, fs)),
                       outcome |-> outcome])

\* DELETE /environments/<ip>/<port>/installed/<package>
delete_installed_package(req) ==
    /\ req.method = "DELETE" /\ Len(req.path) = 5
    /\ req.path[1] = "environments" /\ req.path[4] = "installed"
    /\ UNCHANGED <<environments, sessions, fs, available>>
    /\ LET abort == FirstAbort(<<check_authorization_header(
                                     req, client_key_recoverer, <<>>),
                                 check_registered(environments, req.path[2],
                                                  UrlPort(req))>>)
       IN IF abort # 0
          THEN Reply(req, abort, {}, Absent)
          ELSE \E outcome \in NodeOutcomes :
                   Reply(req, UninstallStatus(outcome), {},
                         [call |-> PreparedDelete(req.path[2], req.path[3],
                                                  req.path[5]),
                          outcome |-> outcome])

----------------------------------------------------------------------------
(* Route handlers: the unsigned proxies to a Node *)

\* What the Node does with a GET: it cannot be reached (status 0), or it
\* answers with a status and a body that is JSON or is not.
NodeAnswers ==
    {[status |-> 0, body |-> EmptyBody]}
    \cup {[status |-> status, body |-> body] :
            status \in {200, 204, 400, 404, 500},
            body \in {JsonBody(JArray(<<"pa">>)), RawBody}}

\* rq.get(url): the call as the Node receives it, no header of the inbound
\* request on it.
PreparedGet(ip, port, path, query) ==
    [host |-> <<ip, port>>, method |-> "GET", path |-> path, query |-> query,
     body |-> EmptyBody,
     headers |-> [Digest |-> Absent, Authorization |-> Absent]]

\* A relay that takes every answer of the Node for a success.
RelayAnyStatus(answer) ==
    IF answer.status = 0 THEN 504
    ELSE IF answer.body.k # "json" THEN 500
    ELSE 200

\* get_environment_info / list_installed_test_sets: the answer for the
\* Node's; resp.json() raises for a body that is no JSON.
RelayStatus(answer) ==
    IF answer.status = 0 THEN 504
    ELSE IF answer.status = 200
    THEN IF answer.body.k = "json" THEN 200 ELSE 500
    ELSE 502

\* jsonify(resp.json())
RelayBody(status, answer) == IF status = 200 THEN {answer.body.json} ELSE {}

\* The two handlers differ in the path they ask the Node for.
Relay(req, path) ==
    /\ UNCHANGED <<environments, sessions, fs, available>>
    /\ IF check_registered(environments, req.path[2], UrlPort(req)) # 0
       THEN Reply(req, 404, {}, Absent)
       ELSE \E answer \in NodeAnswers :
                Reply(req, RelayStatus(answer),
                      RelayBody(RelayStatus(answer), answer),
                      [call |-> PreparedGet(req.path[2], req.path[3], path, ""),
                       outcome |-> answer])

\* GET /environments/<ip>/<port>/info
get_environment_info(req) ==
    /\ req.method = "GET" /\ Len(req.path) = 4
    /\ req.path[1] = "environments" /\ req.path[4] = "info"
    /\ Relay(req, <<"info">>)

\* GET /environments/<ip>/<port>/installed
list_installed_test_sets(req) ==
    /\ req.method = "GET" /\ Len(req.path) = 4
    /\ req.path[1] = "environments" /\ req.path[4] = "installed"
    /\ Relay(req, <<"test_sets">>)

\* The query strings a Client sends to the report route.
Queries ==
    {"", "&", "packages=pa", "modules=pa.mod&test_sets=pa.mod.S",
     "verbose=1", "packages=pa&verbose=1"}

\* request.args.keys(): the names before each "=", empty pairs skipped.
QueryKeys(query) ==
    CASE query = "packages=pa" -> {"packages"}
      [] query = "modules=pa.mod&test_sets=pa.mod.S" -> {"modules", "test_sets"}
      [] query = "verbose=1" -> {"verbose"}
      [] query = "packages=pa&verbose=1" -> {"packages", "verbose"}
      [] OTHER -> {}

\* A filter that lets every key through.
AnyKeyAllowed(query) == FALSE

\* set(request.args.keys()) - valid_keys is not empty
HasInvalidKeys(query) ==
    QueryKeys(query) \ {"packages", "modules", "test_sets"} # {}

\* The query of the url: request.query_string when request.args holds a key.
ForwardedQuery(query) == IF QueryKeys(query) = {} THEN "" ELSE query

\* execute_tests: the answer for the Node's.
ReportStatus(answer) ==
    IF answer.status = 0 THEN 504
    ELSE IF answer.status = 200
    THEN IF answer.body.k = "json" THEN 200 ELSE 500
    ELSE IF answer.status = 400 THEN 500
    ELSE 502

\* GET /environments/<ip>/<port>/report
execute_tests(req) ==
    /\ req.method = "GET" /\ Len(req.path) = 4
    /\ req.path[1] = "environments" /\ req.path[4] = "report"
    /\ UNCHANGED <<environments, sessions, fs, available>>
    /\ IF check_registered(environments, req.path[2], UrlPort(req)) # 0
       THEN Reply(req, 404, {}, Absent)
       ELSE IF HasInvalidKeys(req.query)
       THEN Reply(req, 400, {}, Absent)
       ELSE \E answer \in NodeAnswers :
                Reply(req, ReportStatus(answer),
                      RelayBody(ReportStatus(answer), answer),
                      [call |-> PreparedGet(req.path[2], req.path[3],
                                            <<"report">>,
                                            ForwardedQuery(req.query)),
                       outcome |-> answer])

----------------------------------------------------------------------------
(* The peers: how a Node or a Client builds a request *)

Request(method, path, mimetype, body) ==
    [method |-> method, path |-> path, query |-> "", mimetype |-> mimetype,
     body |-> body, headers |-> [Digest |-> Absent, Authorization |-> Absent]]

WithDigest(req, digest) == [req EXCEPT !.headers.Digest = digest]

\* The Authorization header of `key_id` over the request as it stands, made
\* with `secret` and covering the headers named in `signed`.
SignedBy(req, key_id, secret, signed) ==
    [req EXCEPT !.headers.Authorization =
        new_authorization_header(key_id,
            new_signature(secret, req.method, req.path, req.query, signed,
                          req.headers),
            signed)]

\* A request a peer of the role signs as the protocol asks: the Digest of
\* its body, and a signature over that Digest (where the route wants one).
Genuine(req, key_id, secret) ==
    SignedBy(WithDigest(req, DigestHeader(req.body)), key_id, secret, <<"Digest">>)

GenuineBare(req, key_id, secret) == SignedBy(req, key_id, secret, <<>>)

\* The body replaced on the way, the headers kept.
Tampered(req, body) == [req EXCEPT !.body = body]

\* The body replaced and the Digest recomputed by someone without the secret.
Redigested(req, body) ==
    [req EXCEPT !.body = body, !.headers.Digest = DigestHeader(body)]

----------------------------------------------------------------------------
(* Initial state *)

\* The test-set roots the service may start on: at least the directory.
PackageTree(name, inner) ==
    [path \in {<<name>>} \cup {<<name, x>> : x \in inner} |->
        IF Len(path) = 1 THEN "dir" ELSE InnerType(path[2])]

InitialTrees ==
    {<<>>,
     PackageTree("pa", {INIT_PY, "mod.py"}),
     PackageTree("pa", {INIT_PY, PYCACHE}) @@ PackageTree("pb", {"mod.py"})}

\* A row a former run of the service left in the store.
OldRow == [id_session |-> 7, session_start |-> StartEpoch - TickSeconds,
           env_ip |-> "10.0.0.1", env_port |-> 5000]

NoCall == [fn |-> "none"]

\* The module-level code of c2.py has run: the catalogue is the scan of the
\* root, the registry is empty, no request was handled yet.
Started(rows, tree) ==
    /\ environments = <<>>
    /\ sessions = rows
    /\ fs = tree
    /\ available = get_installed_test_sets(tree)
    /\ last = [req |-> NoRequest, status |-> 0, listing |-> {}, sent |-> Absent]

InitRegistry ==
    /\ \E rows \in {<<>>, <<OldRow>>} : Started(rows, <<>>)
    /\ call = NoCall

----------------------------------------------------------------------------
(* The registry under the requests of Nodes *)

PortValues == {JStr("5000"), JNum(5000), JStr("ssh")}
AllKeys == {"ip", "port", "platform_info"}

RegistrationDocs ==
    {JObject(AllKeys, ip, port, "full") : ip \in IPs, port \in PortValues}
    \cup {JObject(AllKeys \ {key}, "10.0.0.1", JStr("5000"), "full") : key \in AllKeys}
    \cup {JObject(AllKeys, "10.0.0.1", JStr("5000"), "partial"),
          JNull, JArray(<<>>), JArray(<<"ip", "port", "platform_info">>)}

RegistrationBodies == {JsonBody(doc) : doc \in RegistrationDocs} \cup {RawBody}

NodeRegistrations ==
    {Genuine(Request("POST", <<"environments">>, mime, body), "Node", NODE_SECRET) :
        mime \in {JSON_MIME, "text/plain"}, body \in RegistrationBodies}

NodeRemovals ==
    {GenuineBare(Request("DELETE", <<"environments", ip, port>>, "", EmptyBody),
                 "Node", NODE_SECRET) : ip \in IPs, port \in {"5000", "ssh"}}

Unsigned(reqs) == {[req EXCEPT !.headers.Authorization = Absent] : req \in reqs}

RegistryRequests ==
    NodeRegistrations \cup NodeRemovals \cup Unsigned(NodeRemovals)
    \cup {Request("GET", <<"environments">>, "", EmptyBody)}

NextRegistry ==
    \E req \in RegistryRequests :
        \/ add_environment(req)
        \/ remove_environment(req)
        \/ list_environments(req)

SpecRegistry == InitRegistry /\ [][NextRegistry]_vars

----------------------------------------------------------------------------
(* Vocabulary of the properties *)

PostEnvironments(req) == req.method = "POST" /\ req.path = <<"environments">>

DeleteEnvironment(req) ==
    req.method = "DELETE" /\ Len(req.path) = 3 /\ req.path[1] = "environments"

\* The request carries the Digest of the body it arrives with.
DigestMatches(req) == req.headers.Digest = DigestHeader(req.body)

\* The Authorization header names `key_id`, was made with `secret`, and
\* covers this request's method, path, query string and the present values
\* of the headers it lists (Digest among them when `with_digest`).
ProperlySigned(req, key_id, secret, with_digest) ==
    LET auth == req.headers.Authorization
    IN /\ auth # Absent
       /\ auth.scheme = SCHEME
       /\ auth.keyId = key_id
       /\ auth.signature.hmac = secret
       /\ auth.signature.msg[1] = req.method
       /\ auth.signature.msg[2] = req.path
       /\ auth.signature.msg[3] = req.query
       /\ Len(auth.signature.msg[4]) = Len(auth.headers)
       /\ \A i \in 1..Len(auth.headers) :
              auth.signature.msg[4][i] = HeaderGet(req.headers, auth.headers[i])
       /\ with_digest => \E i \in 1..Len(auth.headers) : auth.headers[i] = "Digest"

\* YYYY-MM-DDTHH:MM:SSZ
WellFormedStart(s) ==
    /\ s.year \in 1000..9999 /\ s.month \in 1..12 /\ s.day \in 1..31
    /\ s.hour \in 0..23 /\ s.minute \in 0..59 /\ s.second \in 0..59
    /\ s.zone = "Z"

\* GET /environments shows an entry for the ip under the port's text.
Listed(env, ip, text) == \E e \in Listing(env) : e.ip = ip /\ e.port = text

Ids(rows) == {rows[i].id_session : i \in 1..Len(rows)}

\* The registry keys of an ip that stand for the port number of `port`.
KeysOfPort(env, ip, port) ==
    IF ip \in DOMAIN env
    THEN {p \in DOMAIN env[ip] : IntParses(p) /\ IntOf(p) = IntOf(port)}
    ELSE {}

----------------------------------------------------------------------------
(* C1  Registration lifecycle.  A registration answered 204 is listed by    *)
(* GET /environments under its ip and port with the id of a session row and *)
(* a start of the form YYYY-MM-DDTHH:MM:SSZ, whether the port was sent as a *)
(* JSON string or a JSON number; a Node-signed DELETE naming a listed ip   *)
(* and port is answered 204 and the pair is listed no more.                *)
C1_RegistrationLifecycle ==
    [][/\ (PostEnvironments(last'.req) /\ last'.status = 204) =>
            \E e \in Listing(environments') :
                /\ e.ip = last'.req.body.json.ip
                /\ e.port = KeyText(last'.req.body.json.port)
                /\ e.session_id \in Ids(sessions')
                /\ WellFormedStart(e.session_start)
       /\ (/\ DeleteEnvironment(last'.req)
           /\ ProperlySigned(last'.req, "Node", NODE_SECRET, FALSE)
           /\ Listed(environments, last'.req.path[2], last'.req.path[3])) =>
            /\ last'.status = 204
            /\ ~Listed(environments', last'.req.path[2], last'.req.path[3])
      ]_vars

(* C5  Re-registration.  After a registration answered 204 the registry    *)
(* holds exactly one entry for the ip and port registered, that entry has  *)
(* the id of the row just inserted, and the session table is the former    *)
(* table with that one row appended; no other request changes the table.   *)
C5_ReRegistration ==
    [][IF PostEnvironments(last'.req) /\ last'.status = 204
       THEN LET ip == last'.req.body.json.ip
                port == last'.req.body.json.port
            IN /\ Len(sessions') = Len(sessions) + 1
               /\ SubSeq(sessions', 1, Len(sessions)) = sessions
               /\ sessions'[Len(sessions')].id_session \notin Ids(sessions)
               /\ Cardinality(KeysOfPort(environments', ip, port)) = 1
               /\ \A p \in KeysOfPort(environments', ip, port) :
                      environments'[ip][p].session_id =
                          sessions'[Len(sessions')].id_session
       ELSE sessions' = sessions
      ]_vars

(* What the code does keep: the entry under the very key registered.       *)
C5_SameKey ==
    [][(PostEnvironments(last'.req) /\ last'.status = 204) =>
          LET ip == last'.req.body.json.ip
              port == last'.req.body.json.port
          IN /\ sessions' = Append(sessions, sessions'[Len(sessions')])
             /\ ip \in DOMAIN environments' /\ port \in DOMAIN environments'[ip]
             /\ environments'[ip][port].session_id =
                    sessions'[Len(sessions')].id_session
      ]_vars

(* C6  Deregistration effect.  A DELETE /environments/{ip}/{port} answered  *)
(* 204 removes the entry of that ip and port and nothing else, removes the *)
(* ip with its last port, and leaves the session table alone; no ip of the *)
(* registry ever maps to an empty port map.                                *)
DeleteEffect ==
    (DeleteEnvironment(last'.req) /\ last'.status = 204) =>
        LET ip == last'.req.path[2]
            port == JStr(last'.req.path[3])
        IN /\ ip \in DOMAIN environments /\ port \in DOMAIN environments[ip]
           /\ sessions' = sessions
           /\ Entries(environments') = Entries(environments) \ {<<ip, port>>}
           /\ \A e \in Entries(environments') :
                  environments'[e[1]][e[2]] = environments[e[1]][e[2]]
           /\ DOMAIN environments' = {e[1] : e \in Entries(environments')}

NoEmptyPortMap == \A ip \in DOMAIN environments : DOMAIN environments[ip] # {}

C6_Deregistration == [](NoEmptyPortMap) /\ [][DeleteEffect]_vars

\* A removal that pruned its ip while another ip stayed registered.
C6_Witness ==
    /\ DeleteEnvironment(last.req) /\ last.status = 204
    /\ last.req.path[2] \notin DOMAIN environments
    /\ environments # <<>>

(* C7  POST /environments rejection, as first stated: past the digest and   *)
(* Node-authentication gates, a body not declared as JSON or a JSON body   *)
(* lacking one of ip, port, platform_info is answered 400, registry and    *)
(* session table unchanged.                                                *)
PastNodeGates(req) ==
    /\ PostEnvironments(req)
    /\ DigestMatches(req)
    /\ ProperlySigned(req, "Node", NODE_SECRET, TRUE)

LacksKey(req) ==
    /\ req.body.k = "json"
    /\ req.body.json.t \in {"object", "array"}
    /\ ~HasKeys(req.body.json)

----------------------------------------------------------------------------
(* The whole service under the requests of Nodes, Clients and anyone else *)

TheIp == "10.0.0.1"

ValidArchive == <<Member(<<"pa">>, "dir"), Member(<<"pa", INIT_PY>>, "file")>>
NestedOnlyArchive == <<Member(<<"pb", INIT_PY>>, "file")>>
FileArchive == ValidArchive \o <<Member(<<"pb">>, "file")>>

\* The requests as their senders mean them, before any header is set, each
\* with the key id and the secret of the role its route asks for.
NodeIntents ==
    {Request("POST", <<"environments">>, mime,
             JsonBody(JObject(AllKeys, TheIp, JStr("5000"), "full"))) :
        mime \in {JSON_MIME, "text/plain"}}
    \cup {Request("DELETE", <<"environments", TheIp, port>>, "", EmptyBody) :
            port \in {"5000", "ssh"}}

ClientIntents ==
    {Request("PATCH", <<"environments", TheIp, port, "installed">>, mime,
             JsonBody(JArray(<<"pa">>))) :
        port \in {"5000", "ssh"}, mime \in {JSON_MIME, "text/plain"}}
    \cup {Request("DELETE", <<"environments", TheIp, port, "installed", "pa">>,
                  "", EmptyBody) : port \in {"5000", "ssh"}}
    \cup {Request("PATCH", <<"test_sets">>, MULTIPART_MIME,
                  MultipartBody("packages", archive)) :
            archive \in {ValidArchive, NestedOnlyArchive, FileArchive}}
    \cup {Request("PATCH", <<"test_sets">>, MULTIPART_MIME,
                  MultipartBody("other", ValidArchive)),
          Request("PATCH", <<"test_sets">>, JSON_MIME,
                  MultipartBody("packages", ValidArchive))}
    \cup {Request("DELETE", <<"test_sets", package>>, "", EmptyBody) :
            package \in TopNames}

\* Another body of the same kind, put in place of the sender's.
OtherBody(body) ==
    IF body.k = "multipart" THEN MultipartBody("packages", NestedOnlyArchive)
    ELSE IF body.k = "json" THEN JsonBody(JArray(<<"pb">>))
    ELSE RawBody

\* A header of another scheme.
BasicAuth ==
    [scheme |-> "Basic", keyId |-> "Client", headers |-> <<>>,
     signature |-> [hmac |-> "", msg |-> <<"", <<>>, "", <<>>>>]]

\* The forms in which an intent may arrive: as its role signs it, unsigned,
\* signed by the other role, under key id "C2", with a guessed secret,
\* without the Digest covered, under another scheme, with the signature of
\* another request, with a changed body (Digest kept, Digest recomputed,
\* Digest recomputed under a signature that does not cover it), without a
\* Digest header, with a Digest of another algorithm, with no header at all.
Arrivals(req, key_id, secret, other_id, other_secret) ==
    LET digested == WithDigest(req, DigestHeader(req.body))
        genuine == Genuine(req, key_id, secret)
        replayed == Genuine([req EXCEPT !.path = Append(req.path, "x")],
                            key_id, secret)
    IN {genuine,
        digested,
        Genuine(req, other_id, other_secret),
        Genuine(req, "C2", NODE_SECRET),
        Genuine(req, key_id, "guess"),
        GenuineBare(digested, key_id, secret),
        [digested EXCEPT !.headers.Authorization = BasicAuth],
        [digested EXCEPT !.headers.Authorization = replayed.headers.Authorization],
        Tampered(genuine, OtherBody(req.body)),
        Redigested(genuine, OtherBody(req.body)),
        Redigested(GenuineBare(digested, key_id, secret), OtherBody(req.body)),
        SignedBy(req, key_id, secret, <<"Digest">>),
        SignedBy(WithDigest(req, [alg |-> "md5", value |-> b64encode(sha256(req.body))]),
                 key_id, secret, <<"Digest">>),
        req}

Requests ==
    UNION {Arrivals(req, "Node", NODE_SECRET, "Client", CLIENT_SECRET) :
              req \in NodeIntents}
    \cup UNION {Arrivals(req, "Client", CLIENT_SECRET, "Node", NODE_SECRET) :
                   req \in ClientIntents}
    \cup {Request("GET", <<"environments">>, "", EmptyBody),
          Request("GET", <<"test_sets">>, "", EmptyBody)}

Init ==
    /\ Started(<<>>, PackageTree("pa", {INIT_PY, "mod.py"}))
    /\ call = NoCall

Next ==
    \E req \in Requests :
        \/ add_environment(req)
        \/ remove_environment(req)
        \/ list_environments(req)
        \/ install_packages(req)
        \/ delete_installed_package(req)
        \/ upload_test_sets(req)
        \/ delete_package(req)
        \/ list_available_test_sets(req)

Spec == Init /\ [][Next]_vars

----------------------------------------------------------------------------
(* Vocabulary of the properties: routes and gates *)

PatchInstalled(req) ==
    /\ req.method = "PATCH" /\ Len(req.path) = 4
    /\ req.path[1] = "environments" /\ req.path[4] = "installed"

DeleteInstalled(req) ==
    /\ req.method = "DELETE" /\ Len(req.path) = 5
    /\ req.path[1] = "environments" /\ req.path[4] = "installed"

PatchTestSets(req) == req.method = "PATCH" /\ req.path = <<"test_sets">>

DeleteTestSet(req) ==
    req.method = "DELETE" /\ Len(req.path) = 2 /\ req.path[1] = "test_sets"

NodeRoute(req) == PostEnvironments(req) \/ DeleteEnvironment(req)

ClientRoute(req) ==
    PatchInstalled(req) \/ DeleteInstalled(req) \/ PatchTestSets(req)
    \/ DeleteTestSet(req)

\* The routes that ask for Digest among the signed headers.
DigestRoute(req) ==
    PostEnvironments(req) \/ PatchInstalled(req) \/ PatchTestSets(req)

\* The request's Authorization verifies against the secret of its route's role.
Authenticated(req, with_digest) ==
    \/ NodeRoute(req) /\ ProperlySigned(req, "Node", NODE_SECRET, with_digest)
    \/ ClientRoute(req) /\ ProperlySigned(req, "Client", CLIENT_SECRET, with_digest)

\* The signature covers a Digest, and it is the Digest of the arriving body.
BodyBound(req) ==
    LET auth == req.headers.Authorization
    IN /\ auth # Absent
       /\ Len(auth.signature.msg[4]) = Len(auth.headers)
       /\ \E i \in 1..Len(auth.headers) :
              /\ auth.headers[i] = "Digest"
              /\ auth.signature.msg[4][i] = DigestHeader(req.body)

\* The ip and port of an environment route are a key of the registry.
Registered(env, req) ==
    /\ req.path[2] \in DOMAIN env
    /\ JStr(req.path[3]) \in DOMAIN env[req.path[2]]

NoEffect ==
    /\ environments' = environments /\ sessions' = sessions
    /\ fs' = fs /\ available' = available
    /\ last'.sent = Absent

----------------------------------------------------------------------------
(* C2  Authentication precedes every mutation.  A step that changes the    *)
(* registry, the session table, the catalogue or the test-set root, or     *)
(* that sends a call to a Node, handles a request whose Authorization      *)
(* header verifies against the secret of its route's role.                 *)
C2_AuthBeforeMutation ==
    [][(\/ environments' # environments \/ sessions' # sessions
        \/ fs' # fs \/ available' # available
        \/ last'.sent # Absent) =>
            Authenticated(last'.req, DigestRoute(last'.req))
      ]_vars

\* An upload that was signed by the Client and changed the root.
C2_Witness ==
    /\ PatchTestSets(last.req) /\ last.status = 204
    /\ Authenticated(last.req, TRUE)
    /\ <<"pb", INIT_PY>> \in DOMAIN fs

(* C3  Signature soundness and body binding.  An Authorization header made *)
(* with the role's secret over the request's method, path, query string    *)
(* and signed headers is never answered 401; on a route that wants Digest  *)
(* signed, a request whose body is not the one whose Digest was signed is  *)
(* answered 400, 401 or 415 and has no effect.                             *)
C3_SignatureBinding ==
    [][/\ Authenticated(last'.req, DigestRoute(last'.req)) => last'.status # 401
       /\ (DigestRoute(last'.req) /\ ~BodyBound(last'.req)) =>
              last'.status \in {400, 401, 415} /\ NoEffect
      ]_vars

\* A correctly signed upload whose body was replaced and whose Digest was
\* recomputed, refused at the signature.
C3_Witness ==
    /\ PatchTestSets(last.req) /\ last.req.mimetype = MULTIPART_MIME
    /\ DigestMatches(last.req)
    /\ last.req.headers.Authorization # Absent
    /\ last.req.headers.Authorization.signature.hmac = CLIENT_SECRET
    /\ ~BodyBound(last.req)
    /\ last.status = 401

(* C4  Gate order, as first stated: on POST /environments, DELETE          *)
(* /environments/{ip}/{port}, PATCH and DELETE under .../installed and    *)
(* PATCH /test_sets a request that fails gates is answered by the first   *)
(* failing one in the order Digest (400), authentication (401),           *)
(* registration (404), content type (415).                                *)
InOrder(digest, auth, registered, type) ==
    IF ~digest THEN 400
    ELSE IF ~auth THEN 401
    ELSE IF ~registered THEN 404
    ELSE IF ~type THEN 415
    ELSE 0

\* The status the stated order asks for on the four environment routes.
EnvironmentGates(env, req) ==
    IF PostEnvironments(req)
    THEN InOrder(DigestMatches(req), Authenticated(req, TRUE), TRUE,
                 req.mimetype = JSON_MIME)
    ELSE IF DeleteEnvironment(req)
    THEN InOrder(TRUE, Authenticated(req, FALSE), Registered(env, req), TRUE)
    ELSE IF PatchInstalled(req)
    THEN InOrder(DigestMatches(req), Authenticated(req, TRUE),
                 Registered(env, req), req.mimetype = JSON_MIME)
    ELSE IF DeleteInstalled(req)
    THEN InOrder(TRUE, Authenticated(req, FALSE), Registered(env, req), TRUE)
    ELSE 0

C4_AsStated ==
    [][LET expected ==
               IF PatchTestSets(last'.req)
               THEN InOrder(DigestMatches(last'.req),
                            Authenticated(last'.req, TRUE), TRUE,
                            last'.req.mimetype = MULTIPART_MIME)
               ELSE EnvironmentGates(environments, last'.req)
       IN expected # 0 => last'.status = expected
      ]_vars

(* C4, amended: the stated order holds on the four environment routes; on  *)
(* PATCH /test_sets the order is content type (415), Digest (400), the    *)
(* 'packages' part (400), authentication (401).                           *)
UploadGates(req) ==
    IF req.mimetype # MULTIPART_MIME THEN 415
    ELSE IF ~DigestMatches(req) THEN 400
    ELSE IF ~(req.body.k = "multipart" /\ req.body.part = "packages") THEN 400
    ELSE IF ~Authenticated(req, TRUE) THEN 401
    ELSE 0

C4_GateOrder ==
    [][LET expected ==
               IF PatchTestSets(last'.req) THEN UploadGates(last'.req)
               ELSE EnvironmentGates(environments, last'.req)
       IN expected # 0 => last'.status = expected
      ]_vars

\* An upload that fails the content type, the Digest and the authentication.
C4_Witness ==
    /\ PatchTestSets(last.req) /\ last.req.mimetype # MULTIPART_MIME
    /\ ~DigestMatches(last.req) /\ ~Authenticated(last.req, FALSE)
    /\ last.status = 415

\* An install that fails the authentication and names no registered environment.
C4_WitnessInstall ==
    /\ PatchInstalled(last.req) /\ DigestMatches(last.req)
    /\ ~Authenticated(last.req, TRUE) /\ ~Registered(environments, last.req)
    /\ last.status = 401

(* C8  PATCH /test_sets rejection.  A request that is not                  *)
(* multipart/form-data is answered 415 whatever its Digest and             *)
(* Authorization; a multipart/form-data request whose Digest does not      *)
(* match its body is answered 400; neither changes the test-set root or    *)
(* the catalogue.                                                          *)
C8_UploadRejection ==
    [][/\ (PatchTestSets(last'.req) /\ last'.req.mimetype # MULTIPART_MIME) =>
            last'.status = 415 /\ fs' = fs /\ available' = available
       /\ (/\ PatchTestSets(last'.req) /\ last'.req.mimetype = MULTIPART_MIME
           /\ ~DigestMatches(last'.req)) =>
            last'.status = 400 /\ fs' = fs /\ available' = available
      ]_vars

\* A Client-signed archive sent under another content type.
C8_Witness ==
    /\ PatchTestSets(last.req) /\ last.req.mimetype # MULTIPART_MIME
    /\ DigestMatches(last.req) /\ Authenticated(last.req, TRUE)
    /\ last.status = 415

\* A multipart upload whose body is not the one of its signed Digest.
C8_WitnessDigest ==
    /\ PatchTestSets(last.req) /\ last.req.mimetype = MULTIPART_MIME
    /\ ~DigestMatches(last.req)
    /\ ProperlySigned(last.req, "Client", CLIENT_SECRET, TRUE)
    /\ last.status = 400

(* C9  Catalogue and filesystem agree.  In every state the names of the    *)
(* catalogue are the top-level package directories under the test-set     *)
(* root, one descriptor for each.                                          *)
C9_CatalogueMatchesRoot ==
    /\ Names(available) = {name \in TopNames : IsPackage(fs, name)}
    /\ Len(available) = Cardinality(Names(available))

----------------------------------------------------------------------------
(* Decompression on its own: uncompress_test_packages applied to every     *)
(* archive of at most MaxMembers members and every starting root.          *)

ArchiveMembers ==
    {Member(<<name>>, type) : name \in TopNames, type \in {"dir", "file"}}
    \cup {Member(<<name, x>>, InnerType(x)) : name \in TopNames, x \in InnerNames}

Archives == UNION {[1..n -> ArchiveMembers] : n \in 0..MaxMembers}

InitArchive ==
    /\ Started(<<>>, <<>>)
    /\ call \in {[fn |-> "uncompress_test_packages", tar |-> tar, root |-> root,
                  done |-> FALSE, raised |-> FALSE, new_packages |-> <<>>,
                  tree |-> root] : tar \in Archives, root \in InitialTrees}

Uncompress ==
    /\ ~call.done
    /\ LET result == uncompress_test_packages(call.tar, call.root)
       IN call' = [call EXCEPT !.done = TRUE, !.raised = result.raised,
                               !.new_packages = result.new_packages,
                               !.tree = result.tree]
    /\ UNCHANGED <<environments, sessions, fs, available, last>>

NextArchive == Uncompress

SpecArchive == InitArchive /\ [][NextArchive]_vars

\* A member with no "/" in its name.
TopLevelEntry(member) == Len(member.name) = 1

\* A top-level entry that is a file, or a directory the archive holds no
\* __init__.py directly inside of.
Offending(tar, i) ==
    /\ TopLevelEntry(tar[i])
    /\ \/ tar[i].type = "file"
       \/ ~ \E j \in 1..Len(tar) : tar[j].name = <<tar[i].name[1], INIT_PY>>

(* C10  All-or-nothing decompression.  When some top-level entry of the    *)
(* archive is a file, or a directory without __init__.py directly inside   *)
(* it, uncompress_test_packages raises ValueError and the destination root *)
(* is as it was, wherever the entry stands in the archive.                 *)
C10_AllOrNothing ==
    (call.done /\ \E i \in 1..Len(call.tar) : Offending(call.tar, i)) =>
        call.raised /\ call.tree = call.root

\* A refused archive whose offending entry comes after a whole valid package
\* that the root does not hold yet.
C10_Witness ==
    /\ call.done /\ call.raised
    /\ Len(call.tar) = 3
    /\ call.tar[1] = Member(<<"pb">>, "dir")
    /\ call.tar[2] = Member(<<"pb", INIT_PY>>, "file")
    /\ Offending(call.tar, 3)
    /\ <<"pb">> \notin DOMAIN call.root
    /\ call.tree = call.root

----------------------------------------------------------------------------
(* The keyed collection on its own: the catalogue under content            *)
(* replacement (the startup scan), batch_insert and delete.                *)

Descriptors ==
    {[name |-> name, subpackages |-> <<>>, modules |-> modules] :
        name \in TopNames, modules \in {{}, {"mod.py"}, {"mod.py", "util.py"}}}

Batches == UNION {[1..n -> Descriptors] : n \in 0..MaxBatch}

ScannedTrees ==
    InitialTrees \cup {PackageTree("pa", {INIT_PY}) @@ PackageTree("pb", {INIT_PY, "mod.py"})}

InitCollection ==
    /\ Started(<<>>, <<>>)
    /\ call = [fn |-> "OrderedListOfDict"]

\* available.content = test_utils.get_installed_test_sets("test_sets")
SetContent ==
    \E tree \in ScannedTrees :
        /\ available' = get_installed_test_sets(tree)
        /\ call' = [fn |-> "content", tree |-> tree]
        /\ UNCHANGED <<environments, sessions, fs, last>>

\* available.batch_insert(new_info)
BatchInsert ==
    \E records \in Batches :
        /\ available' = batch_insert(available, records)
        /\ call' = [fn |-> "batch_insert", records |-> records]
        /\ UNCHANGED <<environments, sessions, fs, last>>

\* available.delete(package)
Delete ==
    \E key \in TopNames :
        /\ available' = delete(available, key)
        /\ call' = [fn |-> "delete", key |-> key]
        /\ UNCHANGED <<environments, sessions, fs, last>>

NextCollection == SetContent \/ BatchInsert \/ Delete

SpecCollection == InitCollection /\ [][NextCollection]_vars

PairwiseDistinct(content) ==
    \A i, j \in 1..Len(content) : content[i].name = content[j].name => i = j

\* The record of the batch that is the last one with its key.
LastOfKey(records, i) ==
    \A j \in (i + 1)..Len(records) : records[j].name # records[i].name

\* After a batch insert each key of the batch has exactly one record, the
\* last the batch gave for it, and every other record is held as before.
BatchEffect ==
    call'.fn = "batch_insert" =>
        /\ \A i \in 1..Len(call'.records) :
               LastOfKey(call'.records, i) =>
                   Cardinality({j \in 1..Len(available') :
                       available'[j].name = call'.records[i].name}) = 1
                   /\ \E j \in 1..Len(available') : available'[j] = call'.records[i]
        /\ \A i \in 1..Len(available) :
               available[i].name \notin Names(call'.records) =>
                   \E j \in 1..Len(available') : available'[j] = available[i]
        /\ Names(available') = Names(available) \cup Names(call'.records)

\* A delete removes the record of the key and keeps the others in order.
DeleteRemovesOne ==
    call'.fn = "delete" =>
        available' = SelectSeq(available, LAMBDA r : r.name # call'.key)

DistinctKeys == PairwiseDistinct(available)

(* C11  Keyed-collection uniqueness.  After any sequence of content        *)
(* replacement, batch_insert and delete the names of the held records are  *)
(* pairwise distinct; a batch insert leaves exactly one record for each    *)
(* key it names, also when the key was held or is repeated in the batch;   *)
(* delete removes exactly the record of the given key.                     *)
C11_KeyedUniqueness ==
    [](DistinctKeys) /\ [][BatchEffect /\ DeleteRemovesOne]_vars

\* A batch that repeated a held key, leaving one record for it.
C11_Witness ==
    /\ call.fn = "batch_insert" /\ Len(call.records) = 2
    /\ call.records[1].name = "pa" /\ call.records[2].name = "pa"
    /\ call.records[1] # call.records[2]
    /\ Len(available) = 2 /\ available[1] = call.records[2]
    /\ available[2].name = "pb"

----------------------------------------------------------------------------
(* The proxies: a Node registers, Clients address it through the service   *)

\* The root the packages are packed from: a package with a bytecode cache,
\* and a directory that is no package.
ProxyTree ==
    PackageTree("pa", {INIT_PY, PYCACHE, "mod.py"}) @@ PackageTree("pb", {"mod.py"})

\* The lists of names a Client may ask to install.
Selections ==
    {<<>>, <<"pa">>, <<"pz">>, <<"pa.sub">>, <<"pz", "pa.sub">>, <<"pa", "pz">>}

ProxyRegistrations ==
    {Genuine(Request("POST", <<"environments">>, JSON_MIME,
                     JsonBody(JObject(AllKeys, TheIp, port, "full"))),
             "Node", NODE_SECRET) : port \in {JStr("5000"), JNum(5000)}}

ProxyReads ==
    {Request("GET", <<"environments", TheIp, port, what>>, "", EmptyBody) :
        port \in {"5000", "ssh"}, what \in {"info", "installed"}}
    \cup {[Request("GET", <<"environments", TheIp, port, "report">>, "",
                   EmptyBody) EXCEPT !.query = query] :
            port \in {"5000", "ssh"}, query \in Queries}

ProxyInstalls ==
    LET intents ==
            {Request("PATCH", <<"environments", TheIp, port, "installed">>,
                     JSON_MIME, JsonBody(JArray(names))) :
                port \in {"5000", "ssh"}, names \in Selections}
            \cup {Request("PATCH", <<"environments", TheIp, "5000", "installed">>,
                          JSON_MIME, JsonBody(JObject(AllKeys, TheIp, JStr("5000"), "full")))}
    IN {Genuine(req, "Client", CLIENT_SECRET) : req \in intents}
       \cup {Genuine(req, "C2", NODE_SECRET) : req \in intents}

ProxyUninstalls ==
    LET intents ==
            {Request("DELETE", <<"environments", TheIp, port, "installed", package>>,
                     "", EmptyBody) : port \in {"5000", "ssh"}, package \in {"pa", "pz"}}
    IN {GenuineBare(req, "Client", CLIENT_SECRET) : req \in intents}
       \cup {GenuineBare(req, "C2", NODE_SECRET) : req \in intents}

ProxyRequests == ProxyRegistrations \cup ProxyReads \cup ProxyInstalls \cup ProxyUninstalls

InitProxy ==
    /\ Started(<<>>, ProxyTree)
    /\ call = NoCall

NextProxy ==
    \E req \in ProxyRequests :
        \/ add_environment(req)
        \/ get_environment_info(req)
        \/ list_installed_test_sets(req)
        \/ execute_tests(req)
        \/ install_packages(req)
        \/ delete_installed_package(req)

SpecProxy == InitProxy /\ [][NextProxy]_vars

----------------------------------------------------------------------------
(* Vocabulary of the proxy properties *)

ReadRoute(req) ==
    /\ req.method = "GET" /\ Len(req.path) = 4
    /\ req.path[1] = "environments" /\ req.path[4] \in {"info", "installed"}

ReportRoute(req) ==
    /\ req.method = "GET" /\ Len(req.path) = 4
    /\ req.path[1] = "environments" /\ req.path[4] = "report"

\* The answer of a read-only proxy for what the Node did.
ReadMapping(reply) ==
    /\ reply.sent # Absent
    /\ reply.sent.outcome.status = 0 => reply.status = 504
    /\ (reply.sent.outcome.status = 200 /\ reply.sent.outcome.body.k = "json") =>
           reply.status = 200 /\ reply.listing = {reply.sent.outcome.body.json}
    /\ reply.sent.outcome.status \notin {0, 200} => reply.status = 502

\* 200 is answered only for a Node that answered 200.
OnlyNode200(reply) ==
    reply.status = 200 =>
        reply.sent # Absent /\ reply.sent.outcome.status = 200

(* C12  Read-only proxy status mapping.  For an ip and port the registry *)
(* holds, GET .../info and GET .../installed answer 504 when the Node      *)
(* cannot be reached, 200 with the Node's JSON body when the Node answers  *)
(* 200, 502 for every other status of the Node; 200 is answered only when  *)
(* the Node answered 200.                                                  *)
C12_ReadOnlyProxy ==
    [][ReadRoute(last'.req) =>
          /\ Registered(environments, last'.req) => ReadMapping(last')
          /\ OnlyNode200(last')
      ]_vars

\* A Node that answered 404 to GET /info, relayed as 502.
C12_Witness ==
    /\ ReadRoute(last.req) /\ last.req.path[4] = "info"
    /\ last.sent # Absent /\ last.sent.outcome.status = 404
    /\ last.status = 502


\* The request passes the four gates of PATCH .../installed.
PastInstallGates(env, req) ==
    /\ PatchInstalled(req) /\ DigestMatches(req) /\ Authenticated(req, TRUE)
    /\ Registered(env, req) /\ req.mimetype = JSON_MIME

\* A list of names none of which is a top-level package under the root.
NothingToPack(tree, req) ==
    /\ req.body.k = "json" /\ req.body.json.t = "array"
    /\ \A i \in 1..Len(req.body.json.items) :
           LET tp == req.body.json.items[i]
           IN Dotted(tp) \/ ~IsPackage(tree, tp)

(* C13  Install packaging failure.  A PATCH .../installed that passes all  *)
(* gates and whose list is empty or names only packages that are unknown   *)
(* under the root or not top-level is answered 400 and nothing is sent to  *)
(* the Node.                                                               *)
C13_PackagingFailure ==
    [][(PastInstallGates(environments, last'.req) /\ NothingToPack(fs, last'.req)) =>
          last'.status = 400 /\ last'.sent = Absent
      ]_vars


(* C14  Signed-proxy status mapping.  On PATCH .../installed and DELETE    *)
(* .../installed/{package} the answer is decided by the Node's outcome:    *)
(* unreachable 504; 204 gives 204; on PATCH a Node 400, 401 or 415 gives   *)
(* 500; on DELETE a Node 401 or 404 gives 404; any other status 502.  The  *)
(* service answers 204 exactly when the Node answered 204.                 *)
C14_SignedProxyMapping ==
    [][(PatchInstalled(last'.req) \/ DeleteInstalled(last'.req)) =>
          /\ last'.sent # Absent =>
                LET outcome == last'.sent.outcome
                IN last'.status =
                      (IF outcome = 0 THEN 504
                       ELSE IF outcome = 204 THEN 204
                       ELSE IF PatchInstalled(last'.req) /\ outcome \in {400, 401, 415}
                       THEN 500
                       ELSE IF DeleteInstalled(last'.req) /\ outcome \in {401, 404}
                       THEN 404
                       ELSE 502)
          /\ last'.status = 204 <=>
                (last'.sent # Absent /\ last'.sent.outcome = 204)
      ]_vars

\* An install the Node refused with 401, answered 500.
C14_Witness ==
    /\ PatchInstalled(last.req) /\ last.sent # Absent
    /\ last.sent.outcome = 401 /\ last.status = 500


\* The answer of the report proxy for what the Node did.
ReportMapping(reply) ==
    /\ reply.sent.outcome.status = 0 => reply.status = 504
    /\ (reply.sent.outcome.status = 200 /\ reply.sent.outcome.body.k = "json") =>
           reply.status = 200 /\ reply.listing = {reply.sent.outcome.body.json}
    /\ reply.sent.outcome.status = 400 => reply.status = 500
    /\ reply.sent.outcome.status \notin {0, 200, 400} => reply.status = 502

C15_WitnessForwarded ==
    /\ ReportRoute(last.req) /\ last.sent # Absent
    /\ last.sent.call.query = "modules=pa.mod&test_sets=pa.mod.S"
    /\ last.sent.outcome.status = 400 /\ last.status = 500

----------------------------------------------------------------------------
(* Role separation *)

\* The Authorization header names another key id than the route's role, or
\* was made with another secret.
WrongRole(req) ==
    LET auth == req.headers.Authorization
    IN /\ auth # Absent
       /\ \/ NodeRoute(req) /\ (auth.keyId # "Node" \/ auth.signature.hmac # NODE_SECRET)
          \/ ClientRoute(req) /\ (auth.keyId # "Client" \/ auth.signature.hmac # CLIENT_SECRET)

\* The checks a route makes before it reads the Authorization header pass.
PastEarlierGates(req) ==
    /\ DigestRoute(req) => DigestMatches(req)
    /\ PatchTestSets(req) =>
           /\ req.mimetype = MULTIPART_MIME
           /\ req.body.k = "multipart" /\ req.body.part = "packages"

(* C16  Role separation.  On a Client route an Authorization header whose  *)
(* key id is not "Client" or whose signature was not made with the Client  *)
(* secret, and on a Node route one whose key id is not "Node" or whose     *)
(* signature was not made with the Node secret (key id "C2" signed with    *)
(* the Node secret included), never causes the route's effect, and is      *)
(* answered 401 once the request reaches the authentication gate.          *)
C16_RoleSeparation ==
    [][WrongRole(last'.req) =>
          /\ NoEffect
          /\ last'.status \in {400, 401, 415}
          /\ PastEarlierGates(last'.req) => last'.status = 401
      ]_vars

\* A registration signed with the Node secret under key id "C2", refused.
C16_Witness ==
    /\ PostEnvironments(last.req) /\ DigestMatches(last.req)
    /\ last.req.headers.Authorization # Absent
    /\ last.req.headers.Authorization.keyId = "C2"
    /\ last.req.headers.Authorization.signature.hmac = NODE_SECRET
    /\ last.status = 401

----------------------------------------------------------------------------
(* Packing and unpacking: compress_test_packages over a root, then         *)
(* uncompress_test_packages of the archive into an empty root.             *)

CandidateNames == {"pa", "pb", "pz", "pa.sub"}

NameLists == UNION {[1..n -> CandidateNames] : n \in 0..MaxNames}

SourceTrees ==
    InitialTrees
    \cup {ProxyTree,
          PackageTree("pa", {INIT_PY}) @@ PackageTree("pb", {INIT_PY, PYCACHE, "mod.py"}),
          PackageTree("pa", {INIT_PY, "mod.py"}) @@ (<<"pb">> :> "file")}

InitRoundTrip ==
    /\ Started(<<>>, <<>>)
    /\ call \in {[fn |-> "round_trip", names |-> names, root |-> root,
                  done |-> FALSE, tar |-> <<>>, raised |-> FALSE,
                  new_packages |-> <<>>, tree |-> <<>>] :
                    names \in NameLists, root \in SourceTrees}

RoundTrip ==
    /\ ~call.done
    /\ LET tar == compress_test_packages(call.names, call.root)
           result == uncompress_test_packages(tar, <<>>)
       IN call' = [call EXCEPT !.done = TRUE, !.tar = tar,
                               !.raised = result.raised,
                               !.new_packages = result.new_packages,
                               !.tree = result.tree]
    /\ UNCHANGED <<environments, sessions, fs, available, last>>

NextRoundTrip == RoundTrip

SpecRoundTrip == InitRoundTrip /\ [][NextRoundTrip]_vars

\* The names of the list that are top-level packages under the root.
ValidNamed(names, root) ==
    {names[i] : i \in 1..Len(names)} \cap {name \in TopNames : IsPackage(root, name)}

\* The directories of those packages, whole but for what is named __pycache__.
Originals(names, root) ==
    [path \in {q \in DOMAIN root :
                  /\ q[1] \in ValidNamed(names, root)
                  /\ \A i \in 1..Len(q) : q[i] # PYCACHE} |-> root[path]]

(* C17  Archive round trip.  For every list of names and every root,       *)
(* unpacking into an empty root the archive compress_test_packages makes   *)
(* reproduces exactly the named top-level packages that are present and    *)
(* valid under the root, without their __pycache__ directories, and        *)
(* uncompress_test_packages returns exactly their names.                   *)
C17_RoundTrip ==
    call.done =>
        /\ ~call.raised
        /\ call.tree = Originals(call.names, call.root)
        /\ {call.new_packages[i] : i \in 1..Len(call.new_packages)} =
               ValidNamed(call.names, call.root)

\* The round trip for the roots whose directories are all packages.
C17_PackagesOnly ==
    (call.done /\ \A name \in TopNames :
                     isdir(call.root, <<name>>) => IsPackage(call.root, name)) =>
        /\ ~call.raised
        /\ call.tree = Originals(call.names, call.root)
        /\ {call.new_packages[i] : i \in 1..Len(call.new_packages)} =
               ValidNamed(call.names, call.root)

----------------------------------------------------------------------------
(* Test sets: the test decorator and TestSet.run (test_utils.py)           *)

\* What a method of a test set may return.
IntValue(n) == [t |-> "int", n |-> n]
DictValue == [t |-> "dict"]
StrValue == [t |-> "str"]
NoneValue == [t |-> "none"]
TupleValue(items) == [t |-> "tuple", items |-> items]
ListValue(items) == [t |-> "list", items |-> items]

ReturnValues ==
    {IntValue(1), IntValue(-1), StrValue, NoneValue,
     TupleValue(<<IntValue(1), DictValue>>),
     TupleValue(<<IntValue(1), DictValue, DictValue>>),
     TupleValue(<<StrValue, DictValue>>),
     TupleValue(<<IntValue(0), StrValue>>),
     ListValue(<<IntValue(1), DictValue>>)}

\* The body of a test raises an exception of its own instead of returning.
Raises == [t |-> "raises"]

\* The members of a test set instance: a method the decorator marked, with
\* what its body does, or a method without the mark.
Members ==
    {[marked |-> FALSE, returns |-> NoneValue]}
    \cup {[marked |-> TRUE, returns |-> value] : value \in ReturnValues \cup {Raises}}

\* inspect.getmembers sorts by name: the n-th member is the n-th name.
TestSets == UNION {[1..n -> Members] : n \in 0..MaxTests}

\* wrapper(self): the report of the method's result, or InvalidTestMethod;
\* an exception of the method itself passes through.
wrapper(name, result) ==
    IF result.t = "raises" THEN [raised |-> "Exception", report |-> Absent]
    ELSE IF result.t = "int"
    THEN [raised |-> "none",
          report |-> [test_name |-> name, result_code |-> result.n,
                      additional_info |-> Absent]]
    ELSE IF result.t # "tuple" THEN [raised |-> "InvalidTestMethod", report |-> Absent]
    ELSE IF Len(result.items) # 2 THEN [raised |-> "InvalidTestMethod", report |-> Absent]
    ELSE IF result.items[1].t # "int" THEN [raised |-> "InvalidTestMethod", report |-> Absent]
    ELSE IF result.items[2].t # "dict" THEN [raised |-> "InvalidTestMethod", report |-> Absent]
    ELSE [raised |-> "none",
          report |-> [test_name |-> name, result_code |-> result.items[1].n,
                      additional_info |-> result.items[2]]]

\* is_test_method
is_test_method(member) == member.marked

\* A loop that lets InvalidTestMethod end the run.
RECURSIVE RunUntilInvalid(_, _, _)
RunUntilInvalid(members, i, acc) ==
    IF i > Len(members) THEN acc
    ELSE IF ~is_test_method(members[i]) THEN RunUntilInvalid(members, i + 1, acc)
    ELSE LET out == wrapper(i, members[i].returns)
             invoked == Append(acc.invoked, i)
         IN IF out.raised # "none"
            THEN [acc EXCEPT !.invoked = invoked, !.raised = TRUE]
            ELSE RunUntilInvalid(members, i + 1,
                     [acc EXCEPT !.invoked = invoked,
                                 !.results = Append(acc.results, out.report)])

\* The loop of run over the test methods, from the i-th member on: only
\* InvalidTestMethod is caught.
RECURSIVE RunLoop(_, _, _)
RunLoop(members, i, acc) ==
    IF i > Len(members) THEN acc
    ELSE IF ~is_test_method(members[i]) THEN RunLoop(members, i + 1, acc)
    ELSE LET out == wrapper(i, members[i].returns)
             invoked == Append(acc.invoked, i)
         IN IF out.raised = "Exception"
            THEN [acc EXCEPT !.invoked = invoked, !.raised = TRUE]
            ELSE IF out.raised = "InvalidTestMethod"
            THEN RunLoop(members, i + 1, [acc EXCEPT !.invoked = invoked])
            ELSE RunLoop(members, i + 1,
                     [acc EXCEPT !.invoked = invoked,
                                 !.results = Append(acc.results, out.report)])

\* TestSet.run(self)
run(members) ==
    RunLoop(members, 1, [invoked |-> <<>>, results |-> <<>>, raised |-> FALSE])

InitRun ==
    /\ Started(<<>>, <<>>)
    /\ call \in {[fn |-> "run", members |-> members, done |-> FALSE,
                  invoked |-> <<>>, results |-> <<>>, raised |-> FALSE] :
                    members \in TestSets}

Run ==
    /\ ~call.done
    /\ LET out == run(call.members)
       IN call' = [call EXCEPT !.done = TRUE, !.invoked = out.invoked,
                               !.results = out.results, !.raised = out.raised]
    /\ UNCHANGED <<environments, sessions, fs, available, last>>

NextRun == Run

SpecRun == InitRun /\ [][NextRun]_vars

\* An int, or a pair of an int and a dict.
Conforms(value) ==
    \/ value.t = "int"
    \/ /\ value.t = "tuple" /\ Len(value.items) = 2
       /\ value.items[1].t = "int" /\ value.items[2].t = "dict"

\* The indices of a sequence that satisfy a test, in ascending order.
RECURSIVE Ascending(_, _)
Ascending(set, from) ==
    IF \A i \in set : i < from THEN <<>>
    ELSE IF from \in set THEN <<from>> \o Ascending(set, from + 1)
    ELSE Ascending(set, from + 1)

\* Every test of the set returns a value.
AllReturn(members) ==
    \A i \in 1..Len(members) : members[i].marked => members[i].returns # Raises

\* What the claim asks of a finished run.
Isolated(done) ==
    LET members == done.members
        marked == {i \in 1..Len(members) : members[i].marked}
        good == {i \in marked : Conforms(members[i].returns)}
        order == Ascending(good, 1)
    IN /\ ~done.raised
       /\ done.invoked = Ascending(marked, 1)
       /\ Len(done.results) = Len(order)
       /\ \A k \in 1..Len(order) :
              /\ done.results[k].test_name = order[k]
              /\ done.results[k].result_code =
                    (IF members[order[k]].returns.t = "int"
                     THEN members[order[k]].returns.n
                     ELSE members[order[k]].returns.items[1].n)

----------------------------------------------------------------------------
(* C19  Decompression reports everything it installs.  Whenever            *)
(* uncompress_test_packages succeeds, every top-level directory the        *)
(* extraction creates or overwrites under the root is named in the list it *)
(* returns, also for an archive whose members are nested paths only.       *)
C19_ReportsAllInstalled ==
    (call.fn = "uncompress_test_packages" /\ call.done /\ ~call.raised) =>
        \A i \in 1..Len(call.tar) :
            /\ isdir(call.tree, <<call.tar[i].name[1]>>)
            /\ \E k \in 1..Len(call.new_packages) :
                   call.new_packages[k] = call.tar[i].name[1]

----------------------------------------------------------------------------
\* The Authorization header of key id "C2": an HMAC with the Node secret
\* over the method, the path, no query and the values of the signed headers.
SignedAsC2(sent, signed_names, signed_values) ==
    /\ sent.headers.Authorization # Absent
    /\ sent.headers.Authorization.scheme = SCHEME
    /\ sent.headers.Authorization.keyId = "C2"
    /\ sent.headers.Authorization.headers = signed_names
    /\ sent.headers.Authorization.signature.hmac = NODE_SECRET
    /\ sent.headers.Authorization.signature.msg =
           <<sent.method, sent.path, "", signed_values>>

(* C20  Proxy re-signing.  Every PATCH /test_sets sent to a Node carries a *)
(* Digest of its own body and an Authorization of key id "C2" made with    *)
(* the Node secret over PATCH, /test_sets and that Digest; every DELETE    *)
(* /test_sets/{package} sent carries an Authorization of key id "C2" made  *)
(* with the Node secret over DELETE and the path; the Digest and           *)
(* Authorization of the Client's request are not sent on.                  *)
C20_ProxyReSigning ==
    [][(last'.sent # Absent /\ last'.sent.call.method # "GET") =>
          LET sent == last'.sent.call
              req == last'.req
          IN /\ sent.headers.Authorization # req.headers.Authorization
             /\ sent.host = <<req.path[2], req.path[3]>>
             /\ IF PatchInstalled(req)
                THEN /\ sent.method = "PATCH" /\ sent.path = <<"test_sets">>
                     /\ sent.headers.Digest = DigestHeader(sent.body)
                     /\ sent.headers.Digest # req.headers.Digest
                     /\ SignedAsC2(sent, <<"Digest">>, <<DigestHeader(sent.body)>>)
                ELSE /\ DeleteInstalled(req)
                     /\ sent.method = "DELETE"
                     /\ sent.path = <<"test_sets", req.path[5]>>
                     /\ sent.headers.Digest = Absent
                     /\ SignedAsC2(sent, <<>>, <<>>)
      ]_vars

\* An install the Node accepted: the archive of pa, signed by the service.
C20_Witness ==
    /\ PatchInstalled(last.req) /\ last.status = 204
    /\ last.sent # Absent
    /\ last.sent.call.body.archive # <<>>
    /\ last.sent.call.headers.Authorization.keyId = "C2"
    /\ last.req.headers.Authorization.keyId = "Client"

----------------------------------------------------------------------------
(* Loading a selection: TestSetCollection (test_utils.py) over the test    *)
(* root that holds the package linux with its module linux.                *)

\* What import_module finds under the root, and what inspect.getmembers
\* lists of each module, by name: linux.py imports TestResult, TestSet and
\* test and defines MonitoringSet.
Importable ==
    (<<"linux">> :> <<>>)
    @@ (<<"linux", "linux">> :>
            <<[name |-> "MonitoringSet", kind |-> "subclass"],
              [name |-> "TestResult", kind |-> "alias"],
              [name |-> "TestSet", kind |-> "TestSet"],
              [name |-> "test", kind |-> "function"]>>)

\* The modules walk_packages yields below a package, packages left out.
ModulesBelow(package) ==
    IF package = <<"linux">> THEN <<<<"linux", "linux">>>> ELSE <<>>

\* TestSet.is_strict_subclass
is_strict_subclass(member) == member.kind = "subclass"

\* ts.rsplit(".", 1) of a dotted name given by its parts.
rsplit(ts) ==
    IF Len(ts) < 2 THEN <<ts>>
    ELSE <<SubSeq(ts, 1, Len(ts) - 1), ts[Len(ts)]>>

Loaded(test_sets) == [raised |-> "none", test_sets |-> test_sets]
Failed(error, test_sets) == [raised |-> error, test_sets |-> test_sets]

\* The instances load_module appends, from the i-th member on.
RECURSIVE AppendClasses(_, _, _, _)
AppendClasses(module, members, i, test_sets) ==
    IF i > Len(members) THEN test_sets
    ELSE AppendClasses(module, members, i + 1,
             IF is_strict_subclass(members[i])
             THEN Append(test_sets, Append(module, members[i].name))
             ELSE test_sets)

\* load_module(self, module)
load_module(module, test_sets) ==
    IF module \notin DOMAIN Importable
    THEN Failed("ModuleNotFoundError", test_sets)
    ELSE Loaded(AppendClasses(module, Importable[module], 1, test_sets))

\* The loop of load_package over what walk_packages yields.
RECURSIVE LoadWalked(_, _, _)
LoadWalked(walked, i, test_sets) ==
    IF i > Len(walked) THEN Loaded(test_sets)
    ELSE LET out == load_module(walked[i], test_sets)
         IN IF out.raised # "none" THEN out
            ELSE LoadWalked(walked, i + 1, out.test_sets)

\* load_package(self, package)
load_package(package, test_sets) ==
    IF package \notin DOMAIN Importable
    THEN Failed("ModuleNotFoundError", test_sets)
    ELSE LoadWalked(ModulesBelow(package), 1, test_sets)

\* getattr(mod, test_set): the member of that name, if any.
Attribute(module, test_set) ==
    {member \in {Importable[module][i] : i \in 1..Len(Importable[module])} :
        member.name = test_set}

\* load_test_set(self, module, test_set)
load_test_set(module, test_set, test_sets) ==
    IF module \notin DOMAIN Importable
    THEN Failed("ModuleNotFoundError", test_sets)
    ELSE IF Attribute(module, test_set) = {}
    THEN Failed("AttributeError", test_sets)
    ELSE IF \E c \in Attribute(module, test_set) : is_strict_subclass(c)
    THEN Loaded(Append(test_sets, Append(module, test_set)))
    ELSE Failed("ValueError", test_sets)

\* The three loops of load_entities, each from its i-th name on.
RECURSIVE LoadTestSets(_, _, _)
LoadTestSets(targets, i, test_sets) ==
    IF i > Len(targets) THEN Loaded(test_sets)
    ELSE LET parts == rsplit(targets[i])
         IN IF Len(parts) # 2 THEN Failed("ValueError", test_sets)
            ELSE LET out == load_test_set(parts[1], parts[2], test_sets)
                 IN IF out.raised # "none" THEN out
                    ELSE LoadTestSets(targets, i + 1, out.test_sets)

RECURSIVE LoadModules(_, _, _)
LoadModules(modules, i, test_sets) ==
    IF i > Len(modules) THEN Loaded(test_sets)
    ELSE LET out == load_module(modules[i], test_sets)
         IN IF out.raised # "none" THEN out
            ELSE LoadModules(modules, i + 1, out.test_sets)

RECURSIVE LoadPackages(_, _, _)
LoadPackages(packages, i, test_sets) ==
    IF i > Len(packages) THEN Loaded(test_sets)
    ELSE LET out == load_package(packages[i], test_sets)
         IN IF out.raised # "none" THEN out
            ELSE LoadPackages(packages, i + 1, out.test_sets)

\* load_entities(self, packages, modules, test_sets)
load_entities(packages, modules, test_sets) ==
    LET p == LoadPackages(packages, 1, <<>>)
        m == IF p.raised # "none" THEN p ELSE LoadModules(modules, 1, p.test_sets)
    IN IF m.raised # "none" THEN m ELSE LoadTestSets(test_sets, 1, m.test_sets)

\* The root as a package: every module below it.
LoadRoot == LoadWalked(<<<<"linux", "linux">>>>, 1, <<>>)

\* TestSetCollection(tests_root, packages, modules, test_sets)
TestSetCollection(packages, modules, test_sets) ==
    IF packages # <<>> \/ modules # <<>> \/ test_sets # <<>>
    THEN load_entities(packages, modules, test_sets)
    ELSE LoadRoot

\* The names a selection may give.
Targets ==
    {<<"linux", "linux", "MonitoringSet">>, <<"linux", "linux", "Missing">>,
     <<"linux", "linux", "test">>, <<"linux", "linux", "TestResult">>,
     <<"linux", "linux", "TestSet">>, <<"MonitoringSet">>,
     <<"linux", "MonitoringSet">>, <<"windows", "windows", "MonitoringSet">>}

TargetLists == UNION {[1..n -> Targets] : n \in 0..MaxTargets}

SelectedPackages == {<<>>, <<<<"linux">>>>, <<<<"windows">>>>}
SelectedModules == {<<>>, <<<<"linux", "linux">>>>}

NoCollection ==
    [fn |-> "TestSetCollection", built |-> FALSE, op |-> "none",
     packages |-> <<>>, modules |-> <<>>, targets |-> <<>>,
     raised |-> "none", test_sets |-> <<>>]

InitLoad ==
    /\ Started(<<>>, <<>>)
    /\ call = NoCollection

\* The constructor: a failure leaves no collection.
Construct ==
    /\ ~call.built
    /\ \E packages \in SelectedPackages, modules \in SelectedModules,
          targets \in TargetLists :
          LET out == TestSetCollection(packages, modules, targets)
          IN call' = [call EXCEPT !.built = (out.raised = "none"),
                                  !.op = "construct",
                                  !.packages = packages, !.modules = modules,
                                  !.targets = targets, !.raised = out.raised,
                                  !.test_sets = out.test_sets]
    /\ UNCHANGED <<environments, sessions, fs, available, last>>

\* load_entities on a collection that exists.
Reload ==
    /\ call.built
    /\ \E packages \in SelectedPackages, modules \in SelectedModules,
          targets \in TargetLists :
          LET out == load_entities(packages, modules, targets)
          IN call' = [call EXCEPT !.op = "reload",
                                  !.packages = packages, !.modules = modules,
                                  !.targets = targets, !.raised = out.raised,
                                  !.test_sets = out.test_sets]
    /\ UNCHANGED <<environments, sessions, fs, available, last>>

NextLoad == Construct \/ Reload

SpecLoad == InitLoad /\ [][NextLoad]_vars

\* The name is absent from its module, names a member that is no class or
\* the TestSet base, or has no module part.
Unresolved(target) ==
    \/ Len(target) < 2
    \/ /\ SubSeq(target, 1, Len(target) - 1) \in DOMAIN Importable
       /\ ~ \E c \in Attribute(SubSeq(target, 1, Len(target) - 1),
                                target[Len(target)]) : is_strict_subclass(c)

\* The packages and the modules of the selection load.
OthersLoad(done) ==
    /\ \A i \in 1..Len(done.packages) : done.packages[i] \in DOMAIN Importable
    /\ \A i \in 1..Len(done.modules) : done.modules[i] \in DOMAIN Importable

\* The first name of the selection is such a target.
FirstUnresolved(done) ==
    /\ done.op # "none" /\ OthersLoad(done)
    /\ done.targets # <<>> /\ Unresolved(done.targets[1])

(* C21  Selective loading failure.  Constructing or reloading a            *)
(* TestSetCollection with a test_sets selection whose first failing target *)
(* does not resolve to a concrete test-set class (the name is absent from  *)
(* the module, names something that is not a class, names the TestSet base *)
(* or has no module part) fails with ValueError.                           *)
C21_SelectiveLoadingFailure ==
    FirstUnresolved(call) => call.raised = "ValueError"

\* The same for the first targets that name a member of their module that
\* is no concrete test-set class, or that have no module part.
C21_PresentNames ==
    (FirstUnresolved(call) /\
     (Len(call.targets[1]) < 2 \/
      Attribute(SubSeq(call.targets[1], 1, Len(call.targets[1]) - 1),
                call.targets[1][Len(call.targets[1])]) # {})) =>
        call.raised = "ValueError"

----------------------------------------------------------------------------
(* The proxies while environments come and go: the requests of SpecProxy,  *)
(* the removal of the environment, and the routes of an ip never           *)
(* registered.                                                             *)

TargetRemovals ==
    {GenuineBare(Request("DELETE", <<"environments", TheIp, "5000">>, "",
                         EmptyBody), "Node", NODE_SECRET)}

OtherIpRequests ==
    {Request("GET", <<"environments", "10.0.0.2", "5000", what>>, "", EmptyBody) :
        what \in {"info", "installed", "report"}}
    \cup {Genuine(Request("PATCH", <<"environments", "10.0.0.2", "5000", "installed">>,
                          JSON_MIME, JsonBody(JArray(<<"pa">>))),
                  "Client", CLIENT_SECRET),
          GenuineBare(Request("DELETE",
                              <<"environments", "10.0.0.2", "5000", "installed", "pa">>,
                              "", EmptyBody), "Client", CLIENT_SECRET)}

TargetRequests == ProxyRequests \cup TargetRemovals \cup OtherIpRequests

NextTargets ==
    \E req \in TargetRequests :
        \/ add_environment(req)
        \/ remove_environment(req)
        \/ get_environment_info(req)
        \/ list_installed_test_sets(req)
        \/ execute_tests(req)
        \/ install_packages(req)
        \/ delete_installed_package(req)

SpecTargets == InitProxy /\ [][NextTargets]_vars

\* A route below /environments/<ip>/<port>/.
EnvironmentScoped(req) ==
    Len(req.path) >= 4 /\ req.path[1] = "environments"

\* The address is that of an entry of the registry.
IsEntry(env, host) ==
    /\ host[1] \in DOMAIN env
    /\ \E port \in DOMAIN env[host[1]] : port = JStr(host[2])

(* C22  No outbound call to unregistered targets.  Requests handled one at *)
(* a time: a call is sent only by a route of an environment, to the ip and *)
(* port of its URL, and only while that pair is an entry of the registry;  *)
(* a route of an environment invoked for a pair that is no entry answers   *)
(* 404 or the status of an earlier gate (400, 401) and sends nothing.      *)
C22_NoCallToUnregistered ==
    [][/\ last'.sent # Absent =>
             /\ EnvironmentScoped(last'.req)
             /\ last'.sent.call.host = <<last'.req.path[2], last'.req.path[3]>>
             /\ IsEntry(environments, last'.sent.call.host)
             /\ IsEntry(environments', last'.sent.call.host)
       /\ (EnvironmentScoped(last'.req)
           /\ ~IsEntry(environments, <<last'.req.path[2], last'.req.path[3]>>)) =>
             /\ last'.sent = Absent
             /\ last'.status \in {400, 401, 404}
      ]_vars

\* The environment was registered and removed again: GET .../info for it
\* is answered 404 and no Node is asked.
C22_Witness ==
    /\ sessions # <<>> /\ environments = <<>>
    /\ ReadRoute(last.req) /\ last.req.path[2] = TheIp /\ last.req.path[3] = "5000"
    /\ last.status = 404 /\ last.sent = Absent

----------------------------------------------------------------------------
(* Requests served at the same time: add_environment and                   *)
(* remove_environment run by two threads of the server, statement by       *)
(* statement.  Each request has its own connection to the store            *)
(* (get_database keeps it in flask.g); SQLite lets one connection write at *)
(* a time.  The registry is the module-level dict `environments`, whose    *)
(* values are dict objects a thread may hold a reference to.               *)

Threads == {1, 2}

\* environments, from the dict objects: `top` maps an ip to the identity of
\* its dict, `heap` an identity to the dict's items.
Env(top, heap) == [ip \in DOMAIN top |-> heap[top[ip]]]

Idle ==
    [req |-> NoRequest, pc |-> "idle", status |-> 0, row |-> Absent,
     rec |-> Absent, ref |-> -1]

\* The entry a registration stores: the id of its row and the text of the
\* row's session_start.
SessionRecord(rows, lastrowid) ==
    [session_id |-> lastrowid,
     session_start |-> Strftime(rows[RowById(rows, lastrowid)].session_start)]

\* A store that keeps the session_start of the entry it finds.
StoreItemMerged(items, port, rec) ==
    IF port \in DOMAIN items
    THEN Put(items, port, [rec EXCEPT !.session_start = items[port].session_start])
    ELSE Put(items, port, rec)

\* d[port] = rec
StoreItem(items, port, rec) == Put(items, port, rec)

\* The registry before the two requests: empty, or holding the environment
\* of port "5000" a former request registered.
EarlierRow == SessionRow(1, StartEpoch, TheIp, JStr("5000"))

InitServe ==
    /\ fs = <<>> /\ available = <<>>
    /\ last = [req |-> NoRequest, status |-> 0, listing |-> {}, sent |-> Absent]
    /\ \/ /\ sessions = <<>>
          /\ environments = <<>>
          /\ call = [fn |-> "serve", thread |-> [t \in Threads |-> Idle],
                     writer |-> 0, base |-> 0, top |-> <<>>, heap |-> <<>>]
       \/ /\ sessions = <<EarlierRow>>
          /\ environments =
                RegistryAdd(<<>>, TheIp, JStr("5000"),
                            SessionRecord(<<EarlierRow>>, 1))
          /\ call = [fn |-> "serve", thread |-> [t \in Threads |-> Idle],
                     writer |-> 0, base |-> 1,
                     top |-> Put(<<>>, TheIp, 0),
                     heap |-> Put(<<>>, 0,
                                  Put(<<>>, JStr("5000"),
                                      SessionRecord(<<EarlierRow>>, 1)))]

\* The requests the two threads may be given.
ServedRequests ==
    {Genuine(Request("POST", <<"environments">>, JSON_MIME,
                     JsonBody(JObject(AllKeys, TheIp, port, "full"))),
             "Node", NODE_SECRET) : port \in {JStr("5000"), JStr("5001"), JNum(5000)}}
    \cup {GenuineBare(Request("DELETE", <<"environments", TheIp, "5000">>, "",
                              EmptyBody), "Node", NODE_SECRET),
          Request("DELETE", <<"environments", TheIp, "5000">>, "", EmptyBody)}

\* The thread goes on to its next statement.
Advance(t, th, writer, top, heap) ==
    /\ call' = [call EXCEPT !.thread[t] = th, !.writer = writer,
                            !.top = top, !.heap = heap]
    /\ environments' = Env(top, heap)
    /\ UNCHANGED <<fs, available, last>>

\* The thread's request is answered; an exception no handler catches is
\* answered 500.
Finish(t, status, top, heap) ==
    /\ call' = [call EXCEPT !.thread[t].pc = "done", !.thread[t].status = status,
                            !.top = top, !.heap = heap]
    /\ environments' = Env(top, heap)
    /\ last' = [req |-> call.thread[t].req, status |-> status, listing |-> {},
                sent |-> Absent]
    /\ UNCHANGED <<fs, available>>

Goto(t, pc) ==
    /\ Advance(t, [call.thread[t] EXCEPT !.pc = pc], call.writer, call.top, call.heap)
    /\ UNCHANGED sessions

Answer(t, status) ==
    /\ Finish(t, status, call.top, call.heap)
    /\ UNCHANGED sessions

\* The ip and the port a request is about.
IpOf(req) == IF req.method = "POST" THEN req.body.json.ip ELSE req.path[2]
PortOf(req) == IF req.method = "POST" THEN req.body.json.port ELSE UrlPort(req)

\* A thread of the server takes a request.
Accept(t) ==
    /\ call.thread[t].pc = "idle"
    /\ \E req \in ServedRequests :
          Advance(t, [call.thread[t] EXCEPT !.req = req, !.pc = "gates"],
                  call.writer, call.top, call.heap)
    /\ UNCHANGED sessions

\* add_environment: the gates and the tuple to insert.
AddGates(t) ==
    /\ call.thread[t].pc = "gates" /\ call.thread[t].req.method = "POST"
    /\ IF AddEnvironmentRefusal(call.thread[t].req) # 0
       THEN Answer(t, AddEnvironmentRefusal(call.thread[t].req))
       ELSE Goto(t, "insert")

\* db.execute("INSERT INTO session ..."): the connection becomes the writer.
Insert(t) ==
    /\ call.thread[t].pc = "insert"
    /\ call.writer = 0
    /\ Len(sessions) < MaxSessions
    /\ LET req == call.thread[t].req
           row == SessionRow(NextRowId(sessions), Now(sessions), IpOf(req), PortOf(req))
       IN Advance(t, [call.thread[t] EXCEPT !.row = row, !.pc = "commit"],
                  t, call.top, call.heap)
    /\ UNCHANGED sessions

\* db.commit()
Commit(t) ==
    /\ call.thread[t].pc = "commit"
    /\ sessions' = Append(sessions, call.thread[t].row)
    /\ Advance(t, [call.thread[t] EXCEPT !.pc = "test_ip"], 0, call.top, call.heap)

\* if not ip in environments
TestIp(t) ==
    /\ call.thread[t].pc = "test_ip"
    /\ IF IpOf(call.thread[t].req) \in DOMAIN call.top
       THEN Goto(t, "record")
       ELSE Goto(t, "new_dict")

\* environments[ip] = {}
NewDict(t) ==
    /\ call.thread[t].pc = "new_dict"
    /\ Advance(t, [call.thread[t] EXCEPT !.pc = "record"], call.writer,
               Put(call.top, IpOf(call.thread[t].req), t),
               Put(call.heap, t, <<>>))
    /\ UNCHANGED sessions

\* {'session_id': cursor.lastrowid, 'session_start': cursor.execute(...)}
Record(t) ==
    /\ call.thread[t].pc = "record"
    /\ Advance(t, [call.thread[t] EXCEPT
                      !.rec = SessionRecord(sessions, call.thread[t].row.id_session),
                      !.pc = "load"],
               call.writer, call.top, call.heap)
    /\ UNCHANGED sessions

\* What follows the evaluation of environments[ip] at each place.
AfterLoad(pc) ==
    CASE pc = "load" -> "store"
      [] pc = "reg_load" -> "reg_port"
      [] pc = "del_load" -> "del_port"
      [] pc = "empty_load" -> "empty_test"

\* environments[ip]: a reference to the ip's dict, or KeyError.
LoadDict(t) ==
    /\ call.thread[t].pc \in {"load", "reg_load", "del_load", "empty_load"}
    /\ IF IpOf(call.thread[t].req) \in DOMAIN call.top
       THEN /\ Advance(t, [call.thread[t] EXCEPT
                              !.ref = call.top[IpOf(call.thread[t].req)],
                              !.pc = AfterLoad(call.thread[t].pc)],
                       call.writer, call.top, call.heap)
            /\ UNCHANGED sessions
       ELSE Answer(t, 500)

\* ...[port] = {...}; return Response(status=204)
Store(t) ==
    /\ call.thread[t].pc = "store"
    /\ Finish(t, 204, call.top,
              [call.heap EXCEPT ![call.thread[t].ref] =
                  StoreItem(@, PortOf(call.thread[t].req), call.thread[t].rec)])
    /\ UNCHANGED sessions

\* remove_environment: check_authorization_header(node_key_recoverer)
RemoveGates(t) ==
    /\ call.thread[t].pc = "gates" /\ call.thread[t].req.method = "DELETE"
    /\ IF check_authorization_header(call.thread[t].req, node_key_recoverer, <<>>) # 0
       THEN Answer(t, 401)
       ELSE Goto(t, "reg_ip")

\* check_registered: ip in environments
RegIp(t) ==
    /\ call.thread[t].pc = "reg_ip"
    /\ IF IpOf(call.thread[t].req) \in DOMAIN call.top
       THEN Goto(t, "reg_load")
       ELSE Answer(t, 404)

\* check_registered: port in environments[ip]
RegPort(t) ==
    /\ call.thread[t].pc = "reg_port"
    /\ IF PortOf(call.thread[t].req) \in DOMAIN call.heap[call.thread[t].ref]
       THEN Goto(t, "del_load")
       ELSE Answer(t, 404)

\* del environments[ip][port]
DelPort(t) ==
    /\ call.thread[t].pc = "del_port"
    /\ IF PortOf(call.thread[t].req) \in DOMAIN call.heap[call.thread[t].ref]
       THEN /\ Advance(t, [call.thread[t] EXCEPT !.pc = "empty_load"], call.writer,
                       call.top,
                       [call.heap EXCEPT ![call.thread[t].ref] =
                           Drop(@, PortOf(call.thread[t].req))])
            /\ UNCHANGED sessions
       ELSE Answer(t, 500)

\* if not environments[ip]
EmptyTest(t) ==
    /\ call.thread[t].pc = "empty_test"
    /\ IF DOMAIN call.heap[call.thread[t].ref] = {}
       THEN Goto(t, "del_ip")
       ELSE Answer(t, 204)

\* del environments[ip]; return Response(status=204)
DelIp(t) ==
    /\ call.thread[t].pc = "del_ip"
    /\ IF IpOf(call.thread[t].req) \in DOMAIN call.top
       THEN /\ Finish(t, 204, Drop(call.top, IpOf(call.thread[t].req)), call.heap)
            /\ UNCHANGED sessions
       ELSE Answer(t, 500)

NextServe ==
    \E t \in Threads :
        \/ Accept(t)
        \/ AddGates(t) \/ Insert(t) \/ Commit(t) \/ TestIp(t) \/ NewDict(t)
        \/ Record(t) \/ LoadDict(t) \/ Store(t)
        \/ RemoveGates(t) \/ RegIp(t) \/ RegPort(t) \/ DelPort(t)
        \/ EmptyTest(t) \/ DelIp(t)

SpecServe == InitServe /\ [][NextServe]_vars

----------------------------------------------------------------------------
(* Vocabulary of the properties of concurrent requests *)

BothAnswered == \A t \in Threads : call.thread[t].pc = "done"

ValidPost(th) == th.req.method = "POST" /\ AddEnvironmentRefusal(th.req) = 0

ValidDelete(th) ==
    /\ th.req.method = "DELETE"
    /\ check_authorization_header(th.req, node_key_recoverer, <<>>) = 0

\* Two registrations of one ip and port.
SamePairPosts ==
    /\ \A t \in Threads : ValidPost(call.thread[t])
    /\ IpOf(call.thread[1].req) = IpOf(call.thread[2].req)
    /\ PortOf(call.thread[1].req) = PortOf(call.thread[2].req)

\* The row is in the table, once.
Committed(row) ==
    Cardinality({i \in 1..Len(sessions) : sessions[i] = row}) = 1

\* A registration that waits for the store waits for a writer about to commit.
WritersCommit ==
    \A t \in Threads :
        call.thread[t].pc = "insert" =>
            /\ Len(sessions) < MaxSessions
            /\ call.writer # 0 => call.thread[call.writer].pc = "commit"

LiveRows ==
    \A e \in Entries(environments) :
        LET ids == {i \in 1..Len(sessions) :
                       sessions[i].id_session = environments[e[1]][e[2]].session_id}
        IN /\ Cardinality(ids) = 1
           /\ \A i \in ids : /\ sessions[i].env_ip = e[1]
                             /\ sessions[i].env_port = IntOf(e[2])

\* No two entries name the same row.
OwnRows ==
    \A e, f \in Entries(environments) :
        environments[e[1]][e[2]].session_id = environments[f[1]][f[2]].session_id
            => e = f

\* The ids of the table grow with the order of insertion.
GrowingIds ==
    \A i, j \in 1..Len(sessions) :
        i < j => sessions[i].id_session < sessions[j].id_session

LiveSessions == LiveRows /\ OwnRows /\ GrowingIds

\* A registration gives its entry an id above every id given before.
FreshId ==
    (PostEnvironments(last'.req) /\ last'.status = 204) =>
        /\ Len(sessions') = Len(sessions) + 1
        /\ sessions'[Len(sessions')].id_session > MaxId(sessions)
        /\ environments'[last'.req.body.json.ip][last'.req.body.json.port].session_id
              = sessions'[Len(sessions')].id_session

(* C24  Registry entries reference live session rows.  In every reachable  *)
(* state each entry's session_id is the primary key of one row of the      *)
(* session table, whose env_ip and env_port are the entry's ip and port;   *)
(* no two entries share a session_id; and the ids successive registrations *)
(* are given grow strictly.                                                *)
C24_LiveSessionRows == [](LiveSessions) /\ [][FreshId]_vars

\* Two environments registered after a row of an earlier run: the entries
\* name the rows 8 and 9.
C24_Witness ==
    /\ Len(sessions) = 3 /\ sessions[1] = OldRow
    /\ Cardinality(Entries(environments)) = 2
    /\ \E e \in Entries(environments) : environments[e[1]][e[2]].session_id = 9

(* C25  Registration survives a concurrent deregistration on the same ip.  *)
(* With port "5000" of the ip registered: a valid POST /environments for   *)
(* port "5001" of the ip interleaved in any way with a valid DELETE of     *)
(* port "5000" are both answered 204, after which "5001" is registered and *)
(* "5000" is not; two valid DELETEs of port "5000" interleaved in any way  *)
(* are answered 204 and 404, never 500.                                    *)
C25_RegistrationSurvives ==
    (BothAnswered /\ call.base = 1) =>
        \A t, u \in Threads :
            LET a == call.thread[t]
                b == call.thread[u]
            IN /\ (t # u /\ ValidPost(a) /\ PortOf(a.req) = JStr("5001")
                   /\ ValidDelete(b)) =>
                     /\ a.status = 204 /\ b.status = 204
                     /\ TheIp \in DOMAIN environments
                     /\ DOMAIN environments[TheIp] = {JStr("5001")}
               /\ (t # u /\ ValidDelete(a) /\ ValidDelete(b)) =>
                     {a.status, b.status} = {204, 404}

\* The two cases apart.
C25_PostAndDelete ==
    (BothAnswered /\ call.base = 1 /\ ValidPost(call.thread[1])
     /\ PortOf(call.thread[1].req) = JStr("5001") /\ ValidDelete(call.thread[2])) =>
        /\ call.thread[1].status = 204 /\ call.thread[2].status = 204
        /\ TheIp \in DOMAIN environments
        /\ DOMAIN environments[TheIp] = {JStr("5001")}

C25_TwoDeletes ==
    (BothAnswered /\ call.base = 1
     /\ ValidDelete(call.thread[1]) /\ ValidDelete(call.thread[2])) =>
        {call.thread[1].status, call.thread[2].status} = {204, 404}

=============================================================================
